---- MODULE Spec2Model ----
(***************************************************************************)
(* CChess: Position make/unmake, Zobrist hashing, move generation, the     *)
(* Board front-end and the iterative-deepening search, as state machines.  *)
(*                                                                         *)
(* Representation choices:                                                 *)
(*  - a Bitboard (uint64_t, bit i = square i) is the set of its set bits;  *)
(*    | is \cup, & is \cap, & ~x is \ x, ^ is symmetric difference;        *)
(*  - the 4-bit castling mask is the set of its set bits {1,2,4,8};        *)
(*  - a 64-bit Zobrist hash is the set of key indices XORed into it an odd *)
(*    number of times (XOR of keys = symmetric difference of key sets), so *)
(*    two hashes equal here are equal for every key table;                 *)
(*  - the psqt accumulator is the formal sum of pstValue terms (a function *)
(*    from term index to a non-zero integer coefficient).                  *)
(***************************************************************************)
EXTENDS Integers, Sequences, FiniteSets, TLC

\* ------------------------------------------------------------------ Types.h
White == 0
Black == 1
ColorNone == 2

Pawn == 0
Knight == 1
Bishop == 2
Rook == 3
Queen == 4
King == 5
PieceTypeNone == 6

SQUARE_NONE == 64

WHITE_KINGSIDE == 1
WHITE_QUEENSIDE == 2
BLACK_KINGSIDE == 4
BLACK_QUEENSIDE == 8
WHITE_CASTLING == {WHITE_KINGSIDE, WHITE_QUEENSIDE}
BLACK_CASTLING == {BLACK_KINGSIDE, BLACK_QUEENSIDE}
ALL_CASTLING == WHITE_CASTLING \cup BLACK_CASTLING

FILE_A == 0
FILE_B == 1
FILE_C == 2
FILE_D == 3
FILE_E == 4
FILE_F == 5
FILE_G == 6
FILE_H == 7

RANK_1 == 0
RANK_2 == 1
RANK_3 == 2
RANK_4 == 3
RANK_5 == 4
RANK_6 == 5
RANK_7 == 6
RANK_8 == 7

Squares == 0..63

\* Color operator~ : c ^ 1
Opp(c) == 1 - c

getFile(sq) == sq % 8
getRank(sq) == sq \div 8
makeSquare(f, r) == r * 8 + f

\* uint8_t & 15 of the complemented mask, then &: removal of the bits
removeCastlingRights(cr, rights) == cr \ rights

\* index of castlingKeys[]: the numeric value of the mask
CastlingMask(cr) ==
    (IF 1 \in cr THEN 1 ELSE 0) + (IF 2 \in cr THEN 2 ELSE 0)
  + (IF 4 \in cr THEN 4 ELSE 0) + (IF 8 \in cr THEN 8 ELSE 0)

\* ------------------------------------------------------------------ Piece.h
Piece(pt, c) == [type |-> pt, color |-> c]
NoPiece == Piece(PieceTypeNone, ColorNone)
isEmpty(p) == p.type = PieceTypeNone

\* ------------------------------------------------------------------- Move.h
Normal == 0
Capture == 1
EnPassant == 2
Castling == 3
Promotion == 4
PromotionCapture == 5

Move(from, to, type) ==
    [from |-> from, to |-> to, type |-> type, promotion |-> PieceTypeNone]
MoveP(from, to, type, promo) ==
    [from |-> from, to |-> to, type |-> type, promotion |-> promo]
NullMove == Move(SQUARE_NONE, SQUARE_NONE, Normal)

isCapture(m) == m.type = Capture \/ m.type = PromotionCapture \/ m.type = EnPassant
isPromotion(m) == m.type = Promotion \/ m.type = PromotionCapture
isCastling(m) == m.type = Castling
isEnPassant(m) == m.type = EnPassant
isNull(m) == m.from = SQUARE_NONE \/ m.to = SQUARE_NONE

\* --------------------------------------------------------------- Bitboard.h
Xor(a, b) == (a \ b) \cup (b \ a)
squareBB(sq) == {sq}
testBit(b, sq) == sq \in b
lsb(b) == CHOOSE s \in b : \A t \in b : s <= t

FILE_A_BB == {s \in Squares : getFile(s) = FILE_A}
FILE_H_BB == {s \in Squares : getFile(s) = FILE_H}

\* (b & ~FILE_H_BB) << 9 and friends; bits shifted past bit 63 or below bit 0 drop
shiftNorthEast(b) == {s + 9 : s \in {t \in b \ FILE_H_BB : t + 9 <= 63}}
shiftNorthWest(b) == {s + 7 : s \in {t \in b \ FILE_A_BB : t + 7 <= 63}}
shiftSouthEast(b) == {s - 7 : s \in {t \in b \ FILE_H_BB : t - 7 >= 0}}
shiftSouthWest(b) == {s - 9 : s \in {t \in b \ FILE_A_BB : t - 9 >= 0}}

\* ---------------------------------------------------------------- Zobrist.h
\* Key indices in the order Zobrist init() draws them from xorshift64.
pieceKeys(c, pt, sq) == c * 384 + pt * 64 + sq
sideKey == 768
castlingKeys(mask) == 769 + mask
enPassantKeys(f) == 785 + f

\* hash ^= key
XorKey(h, k) == IF k \in h THEN h \ {k} ELSE h \cup {k}

\* ------------------------------------------------------------------- PST.h
\* pstValue(pt, c, sq): the signed, colour-oriented table value, kept as a
\* formal term; psqt += / -= add +1 / -1 to the term's coefficient.
pstValue(pt, c, sq) == c * 384 + pt * 64 + sq

PsqtAdd(ps, t, d) ==
    LET old == IF t \in DOMAIN ps THEN ps[t] ELSE 0
        new == old + d
    IN  IF new = 0
          THEN [u \in (DOMAIN ps) \ {t} |-> ps[u]]
          ELSE [u \in (DOMAIN ps) \cup {t} |-> IF u = t THEN new ELSE ps[u]]

EmptyScore == [u \in {} |-> 0]

\* ----------------------------------------------------------- AttackTables.cpp
OnBoard(f, r) == f >= 0 /\ f <= 7 /\ r >= 0 /\ r <= 7

knightOffsets ==
    {<<2, 1>>, <<2, -1>>, <<-2, 1>>, <<-2, -1>>, <<1, 2>>, <<1, -2>>, <<-1, 2>>, <<-1, -2>>}
kingOffsets ==
    {<<1, 0>>, <<-1, 0>>, <<0, 1>>, <<0, -1>>, <<1, 1>>, <<1, -1>>, <<-1, 1>>, <<-1, -1>>}
ROOK_DIRECTIONS == {<<1, 0>>, <<-1, 0>>, <<0, 1>>, <<0, -1>>}
BISHOP_DIRECTIONS == {<<1, 1>>, <<1, -1>>, <<-1, 1>>, <<-1, -1>>}

LeaperAttacks(offsets) ==
    [sq \in Squares |->
        {makeSquare(getFile(sq) + off[1], getRank(sq) + off[2]) :
            off \in {o \in offsets : OnBoard(getFile(sq) + o[1], getRank(sq) + o[2])}}]

KNIGHT_ATTACKS == LeaperAttacks(knightOffsets)
KING_ATTACKS == LeaperAttacks(kingOffsets)

\* relevant-occupancy masks: the rays without their edge squares
computeRookMask(sq) ==
    LET f == getFile(sq)
        r == getRank(sq)
    IN  {makeSquare(f, i) : i \in (r + 1)..6} \cup {makeSquare(f, i) : i \in 1..(r - 1)}
        \cup {makeSquare(i, r) : i \in (f + 1)..6} \cup {makeSquare(i, r) : i \in 1..(f - 1)}

computeBishopMask(sq) ==
    LET f == getFile(sq)
        r == getRank(sq)
    IN  {makeSquare(f + i, r + i) : i \in {j \in 1..6 : f + j <= 6 /\ r + j <= 6}}
        \cup {makeSquare(f + i, r - i) : i \in {j \in 1..6 : f + j <= 6 /\ r - j >= 1}}
        \cup {makeSquare(f - i, r + i) : i \in {j \in 1..6 : f - j >= 1 /\ r + j <= 6}}
        \cup {makeSquare(f - i, r - i) : i \in {j \in 1..6 : f - j >= 1 /\ r - j >= 1}}

ROOK_MASKS == [sq \in Squares |-> computeRookMask(sq)]
BISHOP_MASKS == [sq \in Squares |-> computeBishopMask(sq)]

\* one ray of computeSlidingAttacks: set the bit, stop after the first blocker
RECURSIVE RayWalk(_, _, _, _, _)
RayWalk(f, r, df, dr, occupied) ==
    IF ~OnBoard(f, r) THEN {}
    ELSE LET s == makeSquare(f, r)
         IN  IF testBit(occupied, s) THEN {s}
             ELSE {s} \cup RayWalk(f + df, r + dr, df, dr, occupied)

computeSlidingAttacks(sq, occupied, diagonal) ==
    LET dirs == IF diagonal THEN BISHOP_DIRECTIONS ELSE ROOK_DIRECTIONS
    IN  UNION {RayWalk(getFile(sq) + d[1], getRank(sq) + d[2], d[1], d[2], occupied) : d \in dirs}

\* The magic index is collision-free over the subsets of the mask (findMagic
\* accepts a multiplier only then), so the table lookup returns the attack
\* set that was computed for the masked occupancy.
rookAttacks(sq, occupied) == computeSlidingAttacks(sq, occupied \cap ROOK_MASKS[sq], FALSE)
bishopAttacks(sq, occupied) == computeSlidingAttacks(sq, occupied \cap BISHOP_MASKS[sq], TRUE)

\* ------------------------------------------------------------- Position.h/.cpp
\* A Position value: the fields of class Position.
pieces(p, pt, c) == p.pieceBB[pt] \cap p.colorBB[c]

movePieceBB(p, from, to, pt, c) ==
    LET fromTo == squareBB(from) \cup squareBB(to)
    IN  [p EXCEPT !.pieceBB[pt] = Xor(@, fromTo),
                  !.colorBB[c] = Xor(@, fromTo),
                  !.board = [@ EXCEPT ![to] = p.board[from], ![from] = NoPiece],
                  !.psqt = PsqtAdd(PsqtAdd(@, pstValue(pt, c, from), -1), pstValue(pt, c, to), 1)]

removePieceBB(p, sq, pt, c) ==
    [p EXCEPT !.pieceBB[pt] = Xor(@, squareBB(sq)),
              !.colorBB[c] = Xor(@, squareBB(sq)),
              !.board[sq] = NoPiece,
              !.psqt = PsqtAdd(@, pstValue(pt, c, sq), -1)]

putPieceBB(p, sq, pt, c) ==
    [p EXCEPT !.pieceBB[pt] = Xor(@, squareBB(sq)),
              !.colorBB[c] = Xor(@, squareBB(sq)),
              !.board[sq] = Piece(pt, c),
              !.psqt = PsqtAdd(@, pstValue(pt, c, sq), 1)]

\* mutant of updateOccupied: occupied_ is left as it was
updateOccupied_Stale(p) == p

updateOccupied(p) == [p EXCEPT !.occupied = p.colorBB[White] \cup p.colorBB[Black]]

\* Position::clear() as run by the constructor
EmptyPosition ==
    [board |-> [s \in Squares |-> NoPiece],
     pieceBB |-> [pt \in Pawn..King |-> {}],
     colorBB |-> [c \in White..Black |-> {}],
     occupied |-> {},
     kingSquare |-> [c \in White..Black |-> SQUARE_NONE],
     psqt |-> EmptyScore,
     sideToMove |-> White,
     castlingRights |-> {},
     enPassantSquare |-> SQUARE_NONE,
     halfmoveClock |-> 0,
     fullmoveNumber |-> 1,
     hash |-> {}]

\* computeHash(): hash and psqt rebuilt from board, side, castling, en passant.
\* The loop over the 64 squares XORs in one key and adds one term per occupied
\* square; the keys (terms) of different squares are different, so none cancels.
computeHash(p) ==
    LET occ == {sq \in Squares : ~isEmpty(p.board[sq])}
        h0 == {pieceKeys(p.board[sq].color, p.board[sq].type, sq) : sq \in occ}
        ps == [t \in {pstValue(p.board[sq].type, p.board[sq].color, sq) : sq \in occ} |-> 1]
        h1 == IF p.sideToMove = Black THEN XorKey(h0, sideKey) ELSE h0
        h2 == XorKey(h1, castlingKeys(CastlingMask(p.castlingRights)))
        h3 == IF p.enPassantSquare # SQUARE_NONE
                THEN XorKey(h2, enPassantKeys(getFile(p.enPassantSquare)))
                ELSE h2
    IN  [p EXCEPT !.hash = h3, !.psqt = ps]

\* mutant of updateCastlingRightsForMove: a rook captured on its corner leaves
\* the right of its side standing
updateCastlingRightsForMove_NoCapture(p, move, movedPiece) ==
    LET us == p.sideToMove
        r1 == IF movedPiece.type = King
                THEN removeCastlingRights(p.castlingRights,
                         IF us = White THEN WHITE_CASTLING ELSE BLACK_CASTLING)
                ELSE p.castlingRights
        corner == [sq \in Squares |->
                     IF sq = makeSquare(FILE_A, RANK_1) THEN {WHITE_QUEENSIDE}
                     ELSE IF sq = makeSquare(FILE_H, RANK_1) THEN {WHITE_KINGSIDE}
                     ELSE IF sq = makeSquare(FILE_A, RANK_8) THEN {BLACK_QUEENSIDE}
                     ELSE IF sq = makeSquare(FILE_H, RANK_8) THEN {BLACK_KINGSIDE}
                     ELSE {}]
        mine == IF us = White THEN WHITE_CASTLING ELSE BLACK_CASTLING
        r2 == IF movedPiece.type = Rook
                THEN removeCastlingRights(r1, corner[move.from] \cap mine)
                ELSE r1
    IN  [p EXCEPT !.castlingRights = r2]

updateCastlingRightsForMove(p, move, movedPiece) ==
    LET us == p.sideToMove
        them == Opp(us)
        r1 == IF movedPiece.type = King
                THEN removeCastlingRights(p.castlingRights,
                         IF us = White THEN WHITE_CASTLING ELSE BLACK_CASTLING)
                ELSE p.castlingRights
        r2 == IF movedPiece.type = Rook
                THEN IF us = White
                       THEN IF move.from = makeSquare(FILE_A, RANK_1)
                              THEN removeCastlingRights(r1, {WHITE_QUEENSIDE})
                            ELSE IF move.from = makeSquare(FILE_H, RANK_1)
                              THEN removeCastlingRights(r1, {WHITE_KINGSIDE})
                            ELSE r1
                       ELSE IF move.from = makeSquare(FILE_A, RANK_8)
                              THEN removeCastlingRights(r1, {BLACK_QUEENSIDE})
                            ELSE IF move.from = makeSquare(FILE_H, RANK_8)
                              THEN removeCastlingRights(r1, {BLACK_KINGSIDE})
                            ELSE r1
                ELSE r1
        r3 == IF isCapture(move)
                THEN IF them = White
                       THEN IF move.to = makeSquare(FILE_A, RANK_1)
                              THEN removeCastlingRights(r2, {WHITE_QUEENSIDE})
                            ELSE IF move.to = makeSquare(FILE_H, RANK_1)
                              THEN removeCastlingRights(r2, {WHITE_KINGSIDE})
                            ELSE r2
                       ELSE IF move.to = makeSquare(FILE_A, RANK_8)
                              THEN removeCastlingRights(r2, {BLACK_QUEENSIDE})
                            ELSE IF move.to = makeSquare(FILE_H, RANK_8)
                              THEN removeCastlingRights(r2, {BLACK_KINGSIDE})
                            ELSE r2
                ELSE r2
    IN  [p EXCEPT !.castlingRights = r3]

Abs(x) == IF x < 0 THEN -x ELSE x

\* hash ^= pieceKeys[c][pt][sq]
XorPiece(p, c, pt, sq) == [p EXCEPT !.hash = XorKey(@, pieceKeys(c, pt, sq))]

\* the three branches of makeMove that move pieces (castling / en passant / other)
makeMovePieces(p, move, undo0) ==
    LET from == move.from
        to == move.to
        us == p.sideToMove
        them == Opp(us)
        pt == p.board[from].type
    IN  IF isCastling(move) THEN
            LET a == [movePieceBB(p, from, to, King, us) EXCEPT !.kingSquare[us] = to]
                b == XorPiece(XorPiece(a, us, King, from), us, King, to)
                rank == getRank(from)
                rookFrom == IF getFile(to) = FILE_G THEN makeSquare(FILE_H, rank)
                                                    ELSE makeSquare(FILE_A, rank)
                rookTo == IF getFile(to) = FILE_G THEN makeSquare(FILE_F, rank)
                                                  ELSE makeSquare(FILE_D, rank)
                c == movePieceBB(b, rookFrom, rookTo, Rook, us)
            IN  [pos |-> XorPiece(XorPiece(c, us, Rook, rookFrom), us, Rook, rookTo),
                 undo |-> undo0]
        ELSE IF isEnPassant(move) THEN
            LET a == movePieceBB(p, from, to, Pawn, us)
                b == XorPiece(XorPiece(a, us, Pawn, from), us, Pawn, to)
                direction == IF us = White THEN -1 ELSE 1
                capturedSq == makeSquare(getFile(to), getRank(to) + direction)
                c == removePieceBB(b, capturedSq, Pawn, them)
            IN  [pos |-> XorPiece(c, them, Pawn, capturedSq),
                 undo |-> [undo0 EXCEPT !.capturedPiece = p.board[capturedSq]]]
        ELSE
            LET a == IF isCapture(move)
                       THEN XorPiece(removePieceBB(p, to, undo0.capturedPiece.type, them),
                                     them, undo0.capturedPiece.type, to)
                       ELSE p
                b == IF isPromotion(move)
                       THEN XorPiece(XorPiece(
                                putPieceBB(removePieceBB(a, from, Pawn, us), to, move.promotion, us),
                                us, Pawn, from), us, move.promotion, to)
                       ELSE LET m == movePieceBB(a, from, to, pt, us)
                                k == IF pt = King THEN [m EXCEPT !.kingSquare[us] = to] ELSE m
                            IN  XorPiece(XorPiece(k, us, pt, from), us, pt, to)
            IN  [pos |-> b, undo |-> undo0]

\* mutant of hashOutOldKeys: the old en-passant file key stays in the hash
hashOutOldKeys_KeepEp(p) ==
    [p EXCEPT !.hash = XorKey(@, castlingKeys(CastlingMask(p.castlingRights)))]

\* XOR out old castling and en passant keys
hashOutOldKeys(p) ==
    LET h1 == XorKey(p.hash, castlingKeys(CastlingMask(p.castlingRights)))
    IN  [p EXCEPT !.hash = IF p.enPassantSquare # SQUARE_NONE
                             THEN XorKey(h1, enPassantKeys(getFile(p.enPassantSquare)))
                             ELSE h1]

\* the UndoInfo makeMove fills in before it changes anything
saveUndo(p, move) ==
    [capturedPiece |-> p.board[move.to],
     castlingRights |-> p.castlingRights,
     enPassantSquare |-> p.enPassantSquare,
     halfmoveClock |-> p.halfmoveClock,
     hash |-> p.hash]

\* mutant of newEnPassant: a double pawn push leaves no en-passant square
newEnPassant_Never(us, pt, from, to) == SQUARE_NONE

\* mutant of newEnPassant: the square is the one the pawn lands on
newEnPassant_Landing(us, pt, from, to) ==
    IF pt = Pawn /\ Abs(getRank(to) - getRank(from)) = 2 THEN to ELSE SQUARE_NONE

\* the en passant square a double pawn push sets
newEnPassant(us, pt, from, to) ==
    IF pt = Pawn /\ Abs(getRank(to) - getRank(from)) = 2
      THEN makeSquare(getFile(from), getRank(from) + (IF us = White THEN 1 ELSE -1))
      ELSE SQUARE_NONE

\* XOR in new castling and en passant keys, flip side to move
hashInNewKeys(c, ep, us) ==
    LET h3 == XorKey(c.hash, castlingKeys(CastlingMask(c.castlingRights)))
        h4 == IF ep # SQUARE_NONE THEN XorKey(h3, enPassantKeys(getFile(ep))) ELSE h3
    IN  [c EXCEPT !.enPassantSquare = ep,
                  !.hash = XorKey(h4, sideKey),
                  !.sideToMove = Opp(us)]

\* halfmove clock and fullmove number
updateClocks(a, us, pt, move) ==
    [a EXCEPT !.halfmoveClock = IF pt = Pawn \/ isCapture(move) THEN 0 ELSE @ + 1,
              !.fullmoveNumber = IF us = Black THEN @ + 1 ELSE @]

\* makeMove after the pieces have moved: occupancy, clocks, castling rights,
\* en passant square, hash, side to move
makeMoveState(mp, us, movedPiece, move) ==
    [pos |-> hashInNewKeys(
                 updateCastlingRightsForMove(
                     updateClocks(updateOccupied(mp.pos), us, movedPiece.type, move),
                     move, movedPiece),
                 newEnPassant(us, movedPiece.type, move.from, move.to), us),
     undo |-> mp.undo]

\* UndoInfo Position::makeMove(const Move&): returns the new position and the undo record
makeMove(p, move) ==
    makeMoveState(makeMovePieces(hashOutOldKeys(p), move, saveUndo(p, move)),
                  p.sideToMove, p.board[move.from], move)

\* mutant of unmakeState: the fullmove number is not stepped back
unmakeState_KeepFullmove(p, us, undo) ==
    [p EXCEPT !.sideToMove = us,
              !.castlingRights = undo.castlingRights,
              !.enPassantSquare = undo.enPassantSquare,
              !.halfmoveClock = undo.halfmoveClock,
              !.hash = undo.hash]

\* the state fields unmakeMove restores from the UndoInfo
unmakeState(p, us, undo) ==
    [p EXCEPT !.sideToMove = us,
              !.castlingRights = undo.castlingRights,
              !.enPassantSquare = undo.enPassantSquare,
              !.halfmoveClock = undo.halfmoveClock,
              !.hash = undo.hash,
              !.fullmoveNumber = IF us = Black THEN @ - 1 ELSE @]

\* void Position::unmakeMove(const Move&, const UndoInfo&)
unmakeMove(p, move, undo) ==
    LET from == move.from
        to == move.to
        us == Opp(p.sideToMove)
        them == Opp(us)
        a == IF isCastling(move) THEN
                 LET k == [movePieceBB(p, to, from, King, us) EXCEPT !.kingSquare[us] = from]
                     rank == getRank(from)
                     rookFrom == IF getFile(to) = FILE_G THEN makeSquare(FILE_H, rank)
                                                         ELSE makeSquare(FILE_A, rank)
                     rookTo == IF getFile(to) = FILE_G THEN makeSquare(FILE_F, rank)
                                                       ELSE makeSquare(FILE_D, rank)
                 IN  movePieceBB(k, rookTo, rookFrom, Rook, us)
             ELSE IF isEnPassant(move) THEN
                 LET m == movePieceBB(p, to, from, Pawn, us)
                     direction == IF us = White THEN -1 ELSE 1
                     capturedSq == makeSquare(getFile(to), getRank(to) + direction)
                 IN  putPieceBB(m, capturedSq, Pawn, them)
             ELSE
                 LET m == IF isPromotion(move)
                            THEN putPieceBB(removePieceBB(p, to, move.promotion, us), from, Pawn, us)
                            ELSE LET pt == p.board[to].type
                                     mv == movePieceBB(p, to, from, pt, us)
                                 IN  IF pt = King THEN [mv EXCEPT !.kingSquare[us] = from] ELSE mv
                 IN  IF undo.capturedPiece.type # PieceTypeNone
                       THEN putPieceBB(m, to, undo.capturedPiece.type, them)
                       ELSE m
    IN  unmakeState(updateOccupied(a), us, undo)

\* mutant of makeNullMove: the en-passant square is left standing
makeNullMove_KeepEp(p) ==
    [p EXCEPT !.hash = XorKey(p.hash, sideKey), !.sideToMove = Opp(@)]

makeNullMove(p) ==
    LET h1 == XorKey(p.hash, sideKey)
        h2 == IF p.enPassantSquare # SQUARE_NONE
                THEN XorKey(h1, enPassantKeys(getFile(p.enPassantSquare)))
                ELSE h1
    IN  [p EXCEPT !.hash = h2, !.enPassantSquare = SQUARE_NONE, !.sideToMove = Opp(@)]

unmakeNullMove(p, prevEp, prevHash) ==
    [p EXCEPT !.sideToMove = Opp(@), !.enPassantSquare = prevEp, !.hash = prevHash]

\* ---------------------------------------------------------- MoveGenerator.cpp
\* while (b) push_back(f(popLsb(b))): the squares of b in ascending order
RECURSIVE PopLsbSeq(_)
PopLsbSeq(b) ==
    IF b = {} THEN <<>>
    ELSE LET s == lsb(b) IN <<s>> \o PopLsbSeq(b \ {s})

PromoOrder == <<Queen, Rook, Bishop, Knight>>

generatePawnMoves(p, from) ==
    LET us == p.board[from].color
        fromFile == getFile(from)
        fromRank == getRank(from)
        direction == IF us = White THEN 1 ELSE -1
        startRank == IF us = White THEN RANK_2 ELSE RANK_7
        promotionRank == IF us = White THEN RANK_8 ELSE RANK_1
        r == fromRank + direction
        occupied == p.occupied
        to1 == makeSquare(fromFile, r)
        pushes ==
            IF r >= 0 /\ r <= 7 /\ ~testBit(occupied, to1)
              THEN IF r = promotionRank
                     THEN [i \in 1..4 |-> MoveP(from, to1, Promotion, PromoOrder[i])]
                     ELSE <<Move(from, to1, Normal)>> \o
                          (IF fromRank = startRank /\ ~testBit(occupied, makeSquare(fromFile, r + direction))
                             THEN <<Move(from, makeSquare(fromFile, r + direction), Normal)>>
                             ELSE <<>>)
              ELSE <<>>
        enemies == p.colorBB[Opp(us)]
        CapturesTo(df) ==
            LET f == fromFile + df
                to == makeSquare(f, r)
            IN  IF f >= 0 /\ f <= 7
                  THEN (IF testBit(enemies, to)
                          THEN IF r = promotionRank
                                 THEN [i \in 1..4 |-> MoveP(from, to, PromotionCapture, PromoOrder[i])]
                                 ELSE <<Move(from, to, Capture)>>
                          ELSE <<>>)
                       \o (IF to = p.enPassantSquare THEN <<Move(from, to, EnPassant)>> ELSE <<>>)
                  ELSE <<>>
        captures == IF r >= 0 /\ r <= 7 THEN CapturesTo(-1) \o CapturesTo(1) ELSE <<>>
    IN  pushes \o captures

pieceAttacks(pt, sq, occupied) ==
    CASE pt = Knight -> KNIGHT_ATTACKS[sq]
      [] pt = Bishop -> bishopAttacks(sq, occupied)
      [] pt = Rook -> rookAttacks(sq, occupied)
      [] pt = Queen -> rookAttacks(sq, occupied) \cup bishopAttacks(sq, occupied)
      [] pt = King -> KING_ATTACKS[sq]
      [] OTHER -> {}

serializeMoves(from, targets, enemies) ==
    LET caps == targets \cap enemies
        quiets == Xor(targets, caps)
        cs == PopLsbSeq(caps)
        qs == PopLsbSeq(quiets)
    IN  [i \in 1..Len(cs) |-> Move(from, cs[i], Capture)]
        \o [i \in 1..Len(qs) |-> Move(from, qs[i], Normal)]

generatePieceMoves(p, from) ==
    LET piece == p.board[from]
        targets == pieceAttacks(piece.type, from, p.occupied) \ p.colorBB[piece.color]
    IN  serializeMoves(from, targets, p.colorBB[Opp(piece.color)])

isSquareAttacked(p, sq, byColor) ==
    \/ KNIGHT_ATTACKS[sq] \cap pieces(p, Knight, byColor) # {}
    \/ KING_ATTACKS[sq] \cap pieces(p, King, byColor) # {}
    \/ LET pawns == pieces(p, Pawn, byColor)
       IN  /\ pawns # {}
           /\ IF byColor = White
                THEN (shiftNorthEast(pawns) \cup shiftNorthWest(pawns)) \cap squareBB(sq) # {}
                ELSE (shiftSouthEast(pawns) \cup shiftSouthWest(pawns)) \cap squareBB(sq) # {}
    \/ bishopAttacks(sq, p.occupied)
         \cap (pieces(p, Bishop, byColor) \cup pieces(p, Queen, byColor)) # {}
    \/ rookAttacks(sq, p.occupied)
         \cap (pieces(p, Rook, byColor) \cup pieces(p, Queen, byColor)) # {}

isInCheck(p, side) ==
    LET kingSq == p.kingSquare[side]
    IN  kingSq # SQUARE_NONE /\ isSquareAttacked(p, kingSq, Opp(side))

\* mutant of generateCastlingMoves: long castling also asks for an unattacked B-file square
generateCastlingMoves_CheckB(p) ==
    LET us == p.sideToMove
        kingSquare == p.kingSquare[us]
        rank == IF us = White THEN RANK_1 ELSE RANK_8
        kingsideRight == IF us = White THEN WHITE_KINGSIDE ELSE BLACK_KINGSIDE
        queensideRight == IF us = White THEN WHITE_QUEENSIDE ELSE BLACK_QUEENSIDE
        f1 == makeSquare(FILE_F, rank)
        g1 == makeSquare(FILE_G, rank)
        d1 == makeSquare(FILE_D, rank)
        c1 == makeSquare(FILE_C, rank)
        b1 == makeSquare(FILE_B, rank)
        occupied == p.occupied
    IN  IF kingSquare = SQUARE_NONE THEN <<>>
        ELSE IF isInCheck(p, us) THEN <<>>
        ELSE (IF /\ kingsideRight \in p.castlingRights
                 /\ ~testBit(occupied, f1) /\ ~testBit(occupied, g1)
                 /\ ~isSquareAttacked(p, f1, Opp(us)) /\ ~isSquareAttacked(p, g1, Opp(us))
                THEN <<Move(kingSquare, g1, Castling)>> ELSE <<>>)
          \o (IF /\ queensideRight \in p.castlingRights
                 /\ ~testBit(occupied, d1) /\ ~testBit(occupied, c1) /\ ~testBit(occupied, b1)
                 /\ ~isSquareAttacked(p, d1, Opp(us)) /\ ~isSquareAttacked(p, c1, Opp(us))
                 /\ ~isSquareAttacked(p, b1, Opp(us))
                THEN <<Move(kingSquare, c1, Castling)>> ELSE <<>>)

generateCastlingMoves(p) ==
    LET us == p.sideToMove
        kingSquare == p.kingSquare[us]
        rank == IF us = White THEN RANK_1 ELSE RANK_8
        kingsideRight == IF us = White THEN WHITE_KINGSIDE ELSE BLACK_KINGSIDE
        queensideRight == IF us = White THEN WHITE_QUEENSIDE ELSE BLACK_QUEENSIDE
        f1 == makeSquare(FILE_F, rank)
        g1 == makeSquare(FILE_G, rank)
        d1 == makeSquare(FILE_D, rank)
        c1 == makeSquare(FILE_C, rank)
        b1 == makeSquare(FILE_B, rank)
        occupied == p.occupied
    IN  IF kingSquare = SQUARE_NONE THEN <<>>
        ELSE IF isInCheck(p, us) THEN <<>>
        ELSE (IF /\ kingsideRight \in p.castlingRights
                 /\ ~testBit(occupied, f1) /\ ~testBit(occupied, g1)
                 /\ ~isSquareAttacked(p, f1, Opp(us)) /\ ~isSquareAttacked(p, g1, Opp(us))
                THEN <<Move(kingSquare, g1, Castling)>> ELSE <<>>)
          \o (IF /\ queensideRight \in p.castlingRights
                 /\ ~testBit(occupied, d1) /\ ~testBit(occupied, c1) /\ ~testBit(occupied, b1)
                 /\ ~isSquareAttacked(p, d1, Opp(us)) /\ ~isSquareAttacked(p, c1, Opp(us))
                THEN <<Move(kingSquare, c1, Castling)>> ELSE <<>>)

RECURSIVE GenPieces(_, _)
GenPieces(p, ourPieces) ==
    IF ourPieces = {} THEN <<>>
    ELSE LET sq == lsb(ourPieces)
         IN  (IF p.board[sq].type = Pawn THEN generatePawnMoves(p, sq)
                                         ELSE generatePieceMoves(p, sq))
             \o GenPieces(p, ourPieces \ {sq})

generatePseudoLegalMoves(p) ==
    GenPieces(p, p.colorBB[p.sideToMove]) \o generateCastlingMoves(p)

\* the check test on the position after the move, then unmakeMove
checkAndUnmake(mk, side, move) ==
    [inCheck |-> isInCheck(mk.pos, side), pos |-> unmakeMove(mk.pos, move, mk.undo)]

\* mutant of moveLeavesKingInCheck: the check test looks at the side to move
\* after the move instead of the side that moved
moveLeavesKingInCheck_WrongSide(p, move) ==
    checkAndUnmake(makeMove(p, move), Opp(p.sideToMove), move)

\* moveLeavesKingInCheck(Position& pos, move): the answer, and the position the
\* make/unmake pair leaves behind in the caller's workspace
moveLeavesKingInCheck(p, move) ==
    checkAndUnmake(makeMove(p, move), p.sideToMove, move)

\* std::copy_if over the list with one shared workspace
RECURSIVE FilterLegal(_, _, _)
FilterLegal(workspace, list, i) ==
    IF i > Len(list) THEN <<>>
    ELSE LET res == moveLeavesKingInCheck(workspace, list[i])
         IN  (IF res.inCheck THEN <<>> ELSE <<list[i]>>) \o FilterLegal(res.pos, list, i + 1)

generateLegalMoves(p) == FilterLegal(p, generatePseudoLegalMoves(p), 1)

generatePawnCaptures(p, from) ==
    LET us == p.board[from].color
        fromFile == getFile(from)
        fromRank == getRank(from)
        direction == IF us = White THEN 1 ELSE -1
        promotionRank == IF us = White THEN RANK_8 ELSE RANK_1
        captureRank == fromRank + direction
        pushTo == makeSquare(fromFile, captureRank)
        promos == IF captureRank = promotionRank /\ ~testBit(p.occupied, pushTo)
                    THEN [i \in 1..4 |-> MoveP(from, pushTo, Promotion, PromoOrder[i])]
                    ELSE <<>>
        enemies == p.colorBB[Opp(us)]
        CapturesTo(df) ==
            LET f == fromFile + df
                to == makeSquare(f, captureRank)
            IN  IF f < 0 \/ f > 7 THEN <<>>
                ELSE (IF testBit(enemies, to)
                        THEN IF captureRank = promotionRank
                               THEN [i \in 1..4 |-> MoveP(from, to, PromotionCapture, PromoOrder[i])]
                               ELSE <<Move(from, to, Capture)>>
                        ELSE <<>>)
                     \o (IF to = p.enPassantSquare THEN <<Move(from, to, EnPassant)>> ELSE <<>>)
    IN  IF captureRank < 0 \/ captureRank > 7 THEN <<>>
        ELSE promos \o CapturesTo(-1) \o CapturesTo(1)

RECURSIVE GenCaptures(_, _)
GenCaptures(p, ourPieces) ==
    IF ourPieces = {} THEN <<>>
    ELSE LET sq == lsb(ourPieces)
             targets == PopLsbSeq(pieceAttacks(p.board[sq].type, sq, p.occupied)
                                    \cap p.colorBB[Opp(p.sideToMove)])
         IN  (IF p.board[sq].type = Pawn THEN generatePawnCaptures(p, sq)
              ELSE [i \in 1..Len(targets) |-> Move(sq, targets[i], Capture)])
             \o GenCaptures(p, ourPieces \ {sq})

generatePseudoLegalCaptures(p) == GenCaptures(p, p.colorBB[p.sideToMove])

generateLegalCaptures(p) == FilterLegal(p, generatePseudoLegalCaptures(p), 1)

SeqContains(list, m) == \E i \in 1..Len(list) : list[i] = m

\* mutant of isLegal: membership in the pseudo-legal list is taken as legality
isLegal_PseudoOnly(p, move) == SeqContains(generatePseudoLegalMoves(p), move)

isLegal(p, move) ==
    LET pseudoLegal == generatePseudoLegalMoves(p)
    IN  IF ~SeqContains(pseudoLegal, move) THEN FALSE
        ELSE ~moveLeavesKingInCheck(p, move).inCheck

isCheckmate(p) == isInCheck(p, p.sideToMove) /\ generateLegalMoves(p) = <<>>
isStalemate(p) == ~isInCheck(p, p.sideToMove) /\ generateLegalMoves(p) = <<>>
isDraw(p) == p.halfmoveClock >= 100

\* ------------------------------------------------------------------ Board.cpp
\* FenParser::parse(STARTING_FEN): pieces set one by one, then the state
\* fields, then computeHash()
BackRank == <<Rook, Knight, Bishop, Queen, King, Bishop, Knight, Rook>>

StartPiece(sq) ==
    CASE getRank(sq) = RANK_1 -> Piece(BackRank[getFile(sq) + 1], White)
      [] getRank(sq) = RANK_2 -> Piece(Pawn, White)
      [] getRank(sq) = RANK_7 -> Piece(Pawn, Black)
      [] getRank(sq) = RANK_8 -> Piece(BackRank[getFile(sq) + 1], Black)
      [] OTHER -> NoPiece

\* the fields after Position::setPiece has run for every piece of the placement field
PlacePieces ==
    [EmptyPosition EXCEPT
        !.board = [sq \in Squares |-> StartPiece(sq)],
        !.pieceBB = [pt \in Pawn..King |-> {sq \in Squares : StartPiece(sq).type = pt}],
        !.colorBB = [c \in White..Black |-> {sq \in Squares : StartPiece(sq).color = c}],
        !.occupied = {sq \in Squares : ~isEmpty(StartPiece(sq))},
        !.kingSquare = [c \in White..Black |->
                          CHOOSE sq \in Squares : StartPiece(sq) = Piece(King, c)]]

StartPosition ==
    computeHash([PlacePieces EXCEPT
                    !.sideToMove = White,
                    !.castlingRights = ALL_CASTLING,
                    !.enPassantSquare = SQUARE_NONE,
                    !.halfmoveClock = 0,
                    !.fullmoveNumber = 1])

\* bool Board::makeMove(const Move&)
BoardMakeMove(p, move) ==
    IF ~isLegal(p, move) THEN [ok |-> FALSE, pos |-> p]
    ELSE [ok |-> TRUE, pos |-> makeMove(p, move).pos]

\* ===================================================================
\* Search (ai/Search.cpp) over an abstract game.
\*
\* The position the search is started on is given by a game record g: the
\* board_ of the search is the path of moves made from the root (0 is a
\* null move), and what Board, MoveOrder and eval answer for a position is
\* read from g:
\*   g.root      number of legal moves of the root position
\*   g.width     number of legal moves of a position at ply 1, 2, ... (the
\*               last entry repeats)
\*   g.caps      how many of a position's moves are captures
\*   g.qDepth    captures that can be made on one path before none is left
\*   g.dead      positions without a legal move
\*   g.checks    positions whose side to move is in check
\*   g.draws     positions that are a draw by the 50-move rule or repetition
\*   g.collide   whether different positions share their table keys
\* A move of a position is its index 1..n in the generator's order; the
\* first NumCaptures are the captures. Distinct paths are distinct
\* positions; g.collide tells whether their table keys are distinct too.
\* ===================================================================
SCORE_MATE == 100000
SCORE_INFINITY == 200000
SCORE_DRAW == 0
TT_MATE_THRESHOLD == 100000 - 200
NMP_REDUCTION == 2
KILLER1_SCORE == 8000
KILLER2_SCORE == 7000
MAX_LMR_DEPTH == 64
MAX_LMR_MOVES == 64

\* Move{}: the null move
NoMove == 0

Min(a, b) == IF a <= b THEN a ELSE b
Max(a, b) == IF a >= b THEN a ELSE b
Front(q) == SubSeq(q, 1, Len(q) - 1)
Last(q) == q[Len(q)]

RECURSIVE PathSum(_)
PathSum(path) ==
    IF path = <<>> THEN 0 ELSE (PathSum(Front(path)) * 3 + Last(path) + 1) % 1009

\* a small number that varies with the position and the move
Mix(path, m) == (PathSum(path) * 5 + m * 13) % 23

NumMoves(g, path) ==
    IF path \in g.dead THEN 0
    ELSE IF path = <<>> THEN g.root
    ELSE g.width[Min(Len(path), Len(g.width))]

RECURSIVE CapturesMade(_, _)
CapturesMade(g, path) ==
    IF path = <<>> THEN 0
    ELSE LET fr == Front(path)
             cm == CapturesMade(g, fr)
             nc == IF cm < g.qDepth THEN Min(g.caps, NumMoves(g, fr)) ELSE 0
         IN  cm + (IF Last(path) # 0 /\ Last(path) <= nc THEN 1 ELSE 0)

NumCaptures(g, path) ==
    IF CapturesMade(g, path) < g.qDepth THEN Min(g.caps, NumMoves(g, path)) ELSE 0

\* MoveList Board::getLegalMoves() const
getLegalMoves(g, path) == [k \in 1..NumMoves(g, path) |-> k]

\* MoveList Board::getLegalCaptures() const
getLegalCaptures(g, path) == [k \in 1..NumCaptures(g, path) |-> k]

moveIsCapture(g, path, m) == m <= NumCaptures(g, path)

\* bool Board::isInCheck() const
boardIsInCheck(g, path) == path \in g.checks

\* board_.isDraw() || isRepetition()
isDrawOrRepetition(g, path) == path \in g.draws

\* board_.position().hash() as the table sees it (cluster index and 16-bit
\* verification key): the position itself, or, in a game whose positions
\* collide, one of three values shared by many positions
positionHash(g, path) == IF g.collide THEN <<PathSum(path) % 3>> ELSE path

\* what the mover gains, in centipawns, by playing m
Gain(g, path, m) ==
    IF m = 0 THEN 0
    ELSE IF moveIsCapture(g, path, m) THEN 100 * m + Mix(path, m)
    ELSE Mix(path, m) - 11

RECURSIVE WhiteScore(_, _)
WhiteScore(g, path) ==
    IF path = <<>> THEN 0
    ELSE WhiteScore(g, Front(path))
           + (IF Len(path) % 2 = 1 THEN 1 ELSE -1) * Gain(g, Front(path), Last(path))

\* int eval::evaluate(const Position&): relative to the side to move
evaluate(g, path) ==
    (IF Len(path) % 2 = 0 THEN 1 ELSE -1) * WhiteScore(g, path)

\* int MoveOrder::score(const Move&, const Position&): MVV-LVA of a capture, 0 of a quiet move
moveOrderScore(g, path, m) ==
    IF moveIsCapture(g, path, m) THEN 1000 * (1 + ((m * 3) % 5)) - 100 * (1 + (m % 3)) ELSE 0

\* the insertion sorts of MoveOrder.cpp: descending score, equal scores keep their order
InsertionSort(list, sc) ==
    LET n == Len(list)
        rank(j) == Cardinality({i \in 1..n : sc[i] > sc[j] \/ (sc[i] = sc[j] /\ i < j)}) + 1
    IN  [k \in 1..n |-> list[CHOOSE j \in 1..n : rank(j) = k]]

\* void MoveOrder::sort(MoveList&, const Position&)
sort(g, path, moves) ==
    InsertionSort(moves, [i \in 1..Len(moves) |-> moveOrderScore(g, path, moves[i])])

\* void MoveOrder::sort(MoveList&, const Position&, const Move& ttMove)
sortTT(g, path, moves, ttMove) ==
    IF ttMove # NoMove /\ \E i \in 1..Len(moves) : moves[i] = ttMove
    THEN LET i == CHOOSE k \in 1..Len(moves) : moves[k] = ttMove
             swapped == [moves EXCEPT ![1] = moves[i], ![i] = moves[1]]
             rest == SubSeq(swapped, 2, Len(swapped))
         IN  <<swapped[1]>> \o sort(g, path, rest)
    ELSE sort(g, path, moves)

\* mutant of sortKillers: the table move is put in front of the list whether
\* or not the list holds it
sortKillers_TTMoveFirst(g, path, moves, ttMove, killers) ==
    LET sorted == sort(g, path, moves)
        notTT(m) == m # ttMove
    IN  IF ttMove # NoMove THEN <<ttMove>> \o SelectSeq(sorted, notTT) ELSE sorted

\* void MoveOrder::sort(MoveList&, const Position&, const Move& ttMove, const Move* killers)
sortKillers(g, path, moves, ttMove, killers) ==
    LET sc(m) == IF ttMove # NoMove /\ m = ttMove THEN 1000000
                 ELSE IF ~moveIsCapture(g, path, m) /\ killers[1] # NoMove /\ m = killers[1]
                        THEN KILLER1_SCORE
                 ELSE IF ~moveIsCapture(g, path, m) /\ killers[2] # NoMove /\ m = killers[2]
                        THEN KILLER2_SCORE
                 ELSE moveOrderScore(g, path, m)
    IN  InsertionSort(moves, [i \in 1..Len(moves) |-> sc(moves[i])])

\* lmrTable_[d][m] = int(ln d * ln m / 2), rows d = 0..7, columns m = 0..11
LmrRows ==
    << <<0, 0, 0, 0, 0, 0, 0, 0, 0, 0, 0, 0>>,
       <<0, 0, 0, 0, 0, 0, 0, 0, 0, 0, 0, 0>>,
       <<0, 0, 0, 0, 0, 0, 0, 0, 0, 0, 0, 0>>,
       <<0, 0, 0, 0, 0, 0, 0, 1, 1, 1, 1, 1>>,
       <<0, 0, 0, 0, 0, 1, 1, 1, 1, 1, 1, 1>>,
       <<0, 0, 0, 0, 1, 1, 1, 1, 1, 1, 1, 1>>,
       <<0, 0, 0, 0, 1, 1, 1, 1, 1, 1, 2, 2>>,
       <<0, 0, 0, 1, 1, 1, 1, 1, 2, 2, 2, 2>> >>

\* void Search::initLMR()
lmrTable_(d, m) == LmrRows[d + 1][m + 1]

\* ---- TranspositionTable: one cluster of four entries
EmptyEntry == [key |-> <<>>, score |-> 0, depth |-> 0, bound |-> "NONE", gen |-> 0, move |-> NoMove]
EmptyTable == [i \in 1..4 |-> EmptyEntry]

\* static_cast<int16_t>
Int16(x) == ((x + 32768) % 65536) - 32768

scoreToTT(score, ply) ==
    IF score >= TT_MATE_THRESHOLD THEN score + ply
    ELSE IF score <= -TT_MATE_THRESHOLD THEN score - ply
    ELSE score

\* mutant of scoreFromTT: mate scores are returned as stored
scoreFromTT_AsStored(score, ply) == score

scoreFromTT(score, ply) ==
    IF score >= TT_MATE_THRESHOLD THEN score - ply
    ELSE IF score <= -TT_MATE_THRESHOLD THEN score + ply
    ELSE score

entryIsEmpty(e) == e.gen = 0 /\ e.bound = "NONE"

\* bool TranspositionTable::probe(uint64_t hash, TTEntry& out)
probe(t, key) ==
    LET hits == {i \in 1..4 : t[i].key = key /\ ~entryIsEmpty(t[i])}
    IN  IF hits = {} THEN [hit |-> FALSE, entry |-> EmptyEntry]
        ELSE [hit |-> TRUE, entry |-> t[CHOOSE i \in hits : \A j \in hits : i <= j]]

\* mutant of store: an entry of another position is only evicted by a search
\* that went at least as deep
store_DepthPreferred(t, generation, key, score, depth, bound, bestMove) ==
    LET same == {i \in 1..4 : ~entryIsEmpty(t[i]) /\ t[i].key = key}
        empty == {i \in 1..4 : entryIsEmpty(t[i])}
        first == {i \in same \cup empty : \A j \in same \cup empty : i <= j}
        val(i) == t[i].depth - ((generation - t[i].gen) % 64) * 4
        worst == CHOOSE i \in 1..4 : \A j \in 1..4 : val(i) < val(j) \/ (val(i) = val(j) /\ i <= j)
        slot == IF first # {} THEN CHOOSE i \in first : TRUE ELSE worst
        new == [key |-> key, score |-> Int16(score), depth |-> Int16(depth),
                bound |-> bound, gen |-> generation, move |-> bestMove]
    IN  IF slot \in same /\ depth < t[slot].depth /\ bound # "EXACT" THEN t
        ELSE IF first = {} /\ depth < t[slot].depth THEN t
        ELSE [t EXCEPT ![slot] = new]

\* mutant of store: the age is the plain difference of the generations
store_AgeNotWrapped(t, generation, key, score, depth, bound, bestMove) ==
    LET same == {i \in 1..4 : ~entryIsEmpty(t[i]) /\ t[i].key = key}
        empty == {i \in 1..4 : entryIsEmpty(t[i])}
        first == {i \in same \cup empty : \A j \in same \cup empty : i <= j}
        val(i) == t[i].depth - (generation - t[i].gen) * 4
        worst == CHOOSE i \in 1..4 : \A j \in 1..4 : val(i) < val(j) \/ (val(i) = val(j) /\ i <= j)
        slot == IF first # {} THEN CHOOSE i \in first : TRUE ELSE worst
        new == [key |-> key, score |-> Int16(score), depth |-> Int16(depth),
                bound |-> bound, gen |-> generation, move |-> bestMove]
    IN  IF slot \in same /\ depth < t[slot].depth /\ bound # "EXACT" THEN t
        ELSE [t EXCEPT ![slot] = new]

\* mutant of store: the entry always goes to the slot the replacement score picks
store_ReplaceWorst(t, generation, key, score, depth, bound, bestMove) ==
    LET val(i) == t[i].depth - ((generation - t[i].gen) % 64) * 4
        worst == CHOOSE i \in 1..4 : \A j \in 1..4 : val(i) < val(j) \/ (val(i) = val(j) /\ i >= j)
    IN  [t EXCEPT ![worst] = [key |-> key, score |-> Int16(score), depth |-> Int16(depth),
                              bound |-> bound, gen |-> generation, move |-> bestMove]]

\* void TranspositionTable::store(hash, score, depth, bound, bestMove)
store(t, generation, key, score, depth, bound, bestMove) ==
    LET same == {i \in 1..4 : ~entryIsEmpty(t[i]) /\ t[i].key = key}
        empty == {i \in 1..4 : entryIsEmpty(t[i])}
        first == {i \in same \cup empty : \A j \in same \cup empty : i <= j}
        val(i) == t[i].depth - ((generation - t[i].gen) % 64) * 4
        worst == CHOOSE i \in 1..4 : \A j \in 1..4 : val(i) < val(j) \/ (val(i) = val(j) /\ i <= j)
        slot == IF first # {} THEN CHOOSE i \in first : TRUE ELSE worst
        new == [key |-> key, score |-> Int16(score), depth |-> Int16(depth),
                bound |-> bound, gen |-> generation, move |-> bestMove]
    IN  IF slot \in same /\ depth < t[slot].depth /\ bound # "EXACT" THEN t
        ELSE [t EXCEPT ![slot] = new]

\* ---- the Search object and the call stack of findBestMove
\* A frame holds the arguments and locals of one call of findBestMove ("root"),
\* negamax or quiescence; pc says where the call stands: "entry" before its
\* first statement, "null" inside the null-move search, "child" inside the
\* search of moves[i]. stage tells the searches of one move apart: "first"
\* (i == 0, full window), "zw" (null window, possibly reduced), "rezw" (null
\* window at full depth), "pvs" (full window re-search).
NodeFrame(fn, depth, alpha, beta, ply, inCheck, nullOk) ==
    [fn |-> fn, pc |-> "entry", depth |-> depth, alpha |-> alpha, beta |-> beta,
     ply |-> ply, inCheck |-> inCheck, nullOk |-> nullOk, ttMove |-> NoMove,
     moves |-> <<>>, i |-> 0, stage |-> "none", reduction |-> 0, givesCheck |-> FALSE,
     bestScore |-> 0, bestMove |-> NoMove, origAlpha |-> 0]

\* Search::Search(board, config, tt, infoCallback): nothing searched yet.
\* History kept beside the object's fields: infos (the callback's arguments),
\* completed (depthBest of every completed iteration), sampled (the values of
\* nodes_ checkTime ran at), stoppedAt and discarded (the root depth and its
\* depthBest when stopped_ was set), signalWindow (nodes_ / 1024 when the stop
\* signal was set).
NewSearch(g, maxDepth, hasStopSignal, hasCallback) ==
    [phase |-> "idle", game |-> g,
     config_ |-> [maxDepth |-> maxDepth, stopSignal |-> hasStopSignal],
     infoCallback_ |-> hasCallback,
     stopped_ |-> FALSE, nodes_ |-> 0, board_ |-> <<>>, searchStack_ |-> <<>>, frames |-> <<>>,
     returned |-> FALSE, ret |-> 0,
     tt_ |-> EmptyTable, generation_ |-> 0,
     killers_ |-> [p \in 0..maxDepth |-> <<NoMove, NoMove>>],
     bestMove |-> NoMove, result |-> NoMove,
     infos |-> <<>>, completed |-> <<>>, sampled |-> {}, stoppedAt |-> 0,
     discarded |-> NoMove, signalWindow |-> 0]

Frame(s) == s.frames[Len(s.frames)]

\* a call returns v to the frame below
Return(s, v) == [s EXCEPT !.frames = Front(@), !.returned = TRUE, !.ret = v]

\* board_.makeMoveUnchecked(moves[i]); ++nodes_; then the recursive call
makeAndCall(s, f, child) ==
    [s EXCEPT !.frames = Append(Front(@), f) \o <<child>>,
              !.board_ = Append(@, f.moves[f.i]),
              !.nodes_ = @ + 1,
              !.returned = FALSE]

\* searchStack_.push_back(posHash) before the move is made and searched
pushAndCall(s, f, child) ==
    [makeAndCall(s, f, child) EXCEPT !.searchStack_ = Append(@, positionHash(s.game, s.board_))]

\* a further search of the move that is already on the board
callAgain(s, f, child) ==
    [s EXCEPT !.frames = Append(Front(@), f) \o <<child>>, !.returned = FALSE]

\* void Search::checkTime(); timedOut is what elapsed >= config_.searchTime gives
\* when the clock is read
checkTime(s, stopSignal, timedOut) ==
    LET a == [s EXCEPT !.sampled = @ \cup {s.nodes_}]
        stop == [a EXCEPT !.stopped_ = TRUE,
                          !.stoppedAt = IF s.stopped_ THEN @ ELSE s.frames[1].depth,
                          !.discarded = IF s.stopped_ THEN @ ELSE s.frames[1].bestMove]
    IN  IF s.config_.stopSignal /\ stopSignal THEN stop
        ELSE IF timedOut THEN stop
        ELSE a

\* negamax: if ((nodes_ & 1023) == 0) checkTime();
negamaxCheck(s, stopSignal, timedOut) ==
    IF s.nodes_ % 1024 = 0 THEN checkTime(s, stopSignal, timedOut) ELSE s

\* mutant of quiescenceCheck: the clock and the stop signal are looked at in negamax only
quiescenceCheck_Never(s, stopSignal, timedOut) == s

\* quiescence: if ((nodes_ & 1023) == 0) checkTime();
quiescenceCheck(s, stopSignal, timedOut) ==
    IF s.nodes_ % 1024 = 0 THEN checkTime(s, stopSignal, timedOut) ELSE s

\* void Search::storeKiller(int ply, const Move& move)
storeKiller(killers, ply, move) ==
    IF killers[ply][1] = move THEN killers
    ELSE [killers EXCEPT ![ply] = <<move, killers[ply][1]>>]

\* negamax from the TT store to its return
negamaxDone(s, f) ==
    LET bound == IF f.alpha >= f.beta THEN "LOWER"
                 ELSE IF f.bestScore > f.origAlpha THEN "EXACT"
                 ELSE "UPPER"
        s1 == IF ~s.stopped_
                THEN [s EXCEPT !.tt_ = store(@, s.generation_, positionHash(s.game, s.board_),
                                             scoreToTT(f.bestScore, f.ply), f.depth, bound, f.bestMove)]
                ELSE s
    IN  Return(s1, f.bestScore)

\* mutant of nullMoveApplies: the null move is tried at every depth >= 1
nullMoveApplies_AnyDepth(f) == f.nullOk /\ ~(f.beta - f.alpha > 1) /\ ~f.inCheck /\ f.depth >= 1

\* if (reduction >= depth - 1) reduction = depth - 2;   "don't reduce into qsearch"
clampReduction(reduction, depth) == IF reduction >= depth - 1 THEN depth - 2 ELSE reduction

\* the Late Move Reduction of moves[i] (i counted from 0 in the code)
lmrReduction(s, f, i0, m, givesCheck) ==
    IF f.depth >= 3 /\ i0 >= 2 /\ ~f.inCheck /\ ~givesCheck /\ ~moveIsCapture(s.game, s.board_, m)
    THEN clampReduction(lmrTable_(Min(f.depth, MAX_LMR_DEPTH - 1), Min(i0, MAX_LMR_MOVES - 1)),
                        f.depth)
    ELSE 0

\* mutant of negamaxNext: the move is searched with inCheck = false
negamaxNext_ChildNotInCheck(s, f) ==
    LET i == f.i + 1
        m == f.moves[i]
        givesCheck == boardIsInCheck(s.game, Append(s.board_, m))
        reduction == lmrReduction(s, f, i - 1, m, givesCheck)
        f1 == [f EXCEPT !.i = i, !.stage = "zw", !.reduction = reduction, !.givesCheck = givesCheck]
    IN  pushAndCall(s, f1, NodeFrame("negamax", f.depth - 1 - reduction, -f.alpha - 1, -f.alpha,
                                     f.ply + 1, FALSE, TRUE))

\* negamax's move loop for i > 0: make moves[i] and search it with a null window
negamaxNext(s, f) ==
    LET i == f.i + 1
        m == f.moves[i]
        givesCheck == boardIsInCheck(s.game, Append(s.board_, m))
        reduction == lmrReduction(s, f, i - 1, m, givesCheck)
        f1 == [f EXCEPT !.i = i, !.stage = "zw", !.reduction = reduction, !.givesCheck = givesCheck]
    IN  pushAndCall(s, f1, NodeFrame("negamax", f.depth - 1 - reduction, -f.alpha - 1, -f.alpha,
                                     f.ply + 1, givesCheck, TRUE))

\* negamax from getLegalMoves to the search of moves[0]
negamaxMoves(s, f) ==
    LET moves == getLegalMoves(s.game, s.board_)
        sorted == sortKillers(s.game, s.board_, moves, f.ttMove, s.killers_[f.ply])
        givesCheck == boardIsInCheck(s.game, Append(s.board_, sorted[1]))
        f1 == [f EXCEPT !.pc = "child", !.moves = sorted, !.i = 1, !.stage = "first",
                        !.reduction = 0, !.givesCheck = givesCheck,
                        !.bestScore = -SCORE_INFINITY, !.bestMove = NoMove, !.origAlpha = f.alpha]
    IN  IF moves = <<>>
        THEN Return(s, IF f.inCheck THEN -(SCORE_MATE - f.ply) ELSE SCORE_DRAW)
        ELSE pushAndCall(s, f1, NodeFrame("negamax", f.depth - 1, -f.beta, -f.alpha,
                                          f.ply + 1, givesCheck, TRUE))

\* mutant of nullMoveApplies: the null move is also tried when in check
nullMoveApplies_InCheck(f) == f.nullOk /\ ~(f.beta - f.alpha > 1) /\ f.depth >= 3

\* if (nullOk && !isPvNode && !inCheck && depth >= 3), with
\* isPvNode = (beta - alpha > 1)
nullMoveApplies(f) == f.nullOk /\ ~(f.beta - f.alpha > 1) /\ ~f.inCheck /\ f.depth >= 3

\* negamax from its entry to its first recursive call or its return
negamaxEnter(s, stopSignal, timedOut) ==
    LET f == Frame(s)
        s1 == negamaxCheck(s, stopSignal, timedOut)
        pr == probe(s1.tt_, positionHash(s1.game, s1.board_))
        ttMove == IF pr.hit THEN pr.entry.move ELSE NoMove
        isPvNode == f.beta - f.alpha > 1
        ttScore == scoreFromTT(pr.entry.score, f.ply)
        cutoff == /\ pr.hit
                  /\ pr.entry.depth >= f.depth
                  /\ ~isPvNode
                  /\ \/ pr.entry.bound = "EXACT"
                     \/ pr.entry.bound = "LOWER" /\ ttScore >= f.beta
                     \/ pr.entry.bound = "UPPER" /\ ttScore <= f.alpha
        f1 == [f EXCEPT !.ttMove = ttMove]
    IN  IF s1.stopped_ THEN Return(s1, 0)
        ELSE IF isDrawOrRepetition(s1.game, s1.board_) THEN Return(s1, SCORE_DRAW)
        ELSE IF f.depth = 0
          THEN [s1 EXCEPT !.frames = Append(Front(@), NodeFrame("quiescence", 0, f.alpha, f.beta,
                                                                  f.ply, FALSE, FALSE))]
        ELSE IF cutoff THEN Return(s1, ttScore)
        ELSE IF nullMoveApplies(f)
          THEN [s1 EXCEPT !.board_ = Append(@, 0),
                          !.frames = Append(Front(@), [f1 EXCEPT !.pc = "null"])
                                       \o <<NodeFrame("negamax", f.depth - 1 - NMP_REDUCTION,
                                                      -f.beta, -f.beta + 1, f.ply + 1, FALSE, FALSE)>>]
        ELSE negamaxMoves(s1, f1)

\* negamax after the null-move search has returned
negamaxAfterNull(s) ==
    LET f == Frame(s)
        nullScore == -s.ret
        s1 == [s EXCEPT !.board_ = Front(@), !.returned = FALSE]
    IN  IF s1.stopped_ THEN Return(s1, 0)
        ELSE IF nullScore >= f.beta THEN Return(s1, f.beta)
        ELSE negamaxMoves(s1, f)

\* negamax after the last search of moves[i]: unmake, bookkeeping, next move or return
negamaxScored(s, f, score) ==
    LET m == f.moves[f.i]
        s1 == [s EXCEPT !.board_ = Front(@), !.searchStack_ = Front(@), !.returned = FALSE]
        f1 == [f EXCEPT !.bestScore = Max(@, score),
                        !.bestMove = IF score > f.bestScore THEN m ELSE @,
                        !.alpha = Max(@, score)]
        s2 == IF ~moveIsCapture(s1.game, s1.board_, m)
                THEN [s1 EXCEPT !.killers_ = storeKiller(@, f.ply, m)]
                ELSE s1
    IN  IF s1.stopped_ THEN Return(s1, 0)
        ELSE IF f1.alpha >= f1.beta THEN negamaxDone(s2, f1)
        ELSE IF f1.i < Len(f1.moves) THEN negamaxNext(s1, f1)
        ELSE negamaxDone(s1, f1)

\* negamax when a search of moves[i] has returned: re-search or go on
negamaxAfterChild(s) ==
    LET f == Frame(s)
        score == -s.ret
        again(stage, a, b) ==
            callAgain(s, [f EXCEPT !.stage = stage],
                      NodeFrame("negamax", f.depth - 1, a, b, f.ply + 1, f.givesCheck, TRUE))
    IN  IF f.stage = "zw" /\ f.reduction > 0 /\ score > f.alpha
          THEN again("rezw", -f.alpha - 1, -f.alpha)
        ELSE IF f.stage \in {"zw", "rezw"} /\ score > f.alpha /\ score < f.beta
          THEN again("pvs", -f.beta, -f.alpha)
        ELSE negamaxScored(s, f, score)

\* quiescence from the TT store to its return
quiescenceDone(s, f) ==
    LET bound == IF f.bestScore >= f.beta THEN "LOWER"
                 ELSE IF f.bestScore > f.origAlpha THEN "EXACT"
                 ELSE "UPPER"
        s1 == IF ~s.stopped_
                THEN [s EXCEPT !.tt_ = store(@, s.generation_, positionHash(s.game, s.board_),
                                             scoreToTT(f.bestScore, f.ply), 0, bound, f.bestMove)]
                ELSE s
    IN  Return(s1, f.bestScore)

\* quiescence's capture loop: make captures[i] and search it
quiescenceNext(s, f) ==
    LET f1 == [f EXCEPT !.i = f.i + 1]
    IN  makeAndCall(s, f1, NodeFrame("quiescence", 0, -f.beta, -f.alpha, f.ply + 1, FALSE, FALSE))

\* quiescence from its entry to its first recursive call or its return
quiescenceEnter(s, stopSignal, timedOut) ==
    LET f == Frame(s)
        s1 == quiescenceCheck(s, stopSignal, timedOut)
        pr == probe(s1.tt_, positionHash(s1.game, s1.board_))
        ttScore == scoreFromTT(pr.entry.score, f.ply)
        cutoff == /\ pr.hit
                  /\ \/ pr.entry.bound = "EXACT"
                     \/ pr.entry.bound = "LOWER" /\ ttScore >= f.beta
                     \/ pr.entry.bound = "UPPER" /\ ttScore <= f.alpha
        standPat == evaluate(s1.game, s1.board_)
        captures == sort(s1.game, s1.board_, getLegalCaptures(s1.game, s1.board_))
        f1 == [f EXCEPT !.pc = "child", !.origAlpha = f.alpha, !.bestScore = standPat,
                        !.alpha = Max(@, standPat), !.bestMove = NoMove,
                        !.moves = captures, !.i = 0]
    IN  IF s1.stopped_ THEN Return(s1, 0)
        ELSE IF cutoff THEN Return(s1, ttScore)
        ELSE IF standPat >= f.beta THEN Return(s1, f.beta)
        ELSE IF captures = <<>> THEN quiescenceDone(s1, f1)
        ELSE quiescenceNext(s1, f1)

\* quiescence after the search of captures[i]
quiescenceAfterChild(s) ==
    LET f == Frame(s)
        score == -s.ret
        s1 == [s EXCEPT !.board_ = Front(@), !.returned = FALSE]
        f1 == [f EXCEPT !.bestScore = Max(@, score),
                        !.bestMove = IF score > f.bestScore THEN f.moves[f.i] ELSE @,
                        !.alpha = Max(@, score)]
    IN  IF s1.stopped_ THEN Return(s1, 0)
        ELSE IF f1.alpha >= f1.beta THEN quiescenceDone(s1, f1)
        ELSE IF f1.i < Len(f1.moves) THEN quiescenceNext(s1, f1)
        ELSE quiescenceDone(s1, f1)

\* return bestMove;
searchReturn(s) ==
    [s EXCEPT !.phase = "done", !.frames = <<>>, !.returned = FALSE, !.result = s.bestMove]

\* the head of one iteration of findBestMove's depth loop, up to the search of moves[0]
rootIteration(s, depth) ==
    LET moves == getLegalMoves(s.game, s.board_)
        pr == probe(s.tt_, positionHash(s.game, s.board_))
        ttMove == IF pr.hit THEN pr.entry.move ELSE NoMove
        sorted == sortTT(s.game, s.board_, moves, ttMove)
        givesCheck == boardIsInCheck(s.game, Append(s.board_, sorted[1]))
        f == [NodeFrame("root", depth, -SCORE_INFINITY, SCORE_INFINITY, 0, FALSE, FALSE)
                EXCEPT !.pc = "child", !.moves = sorted, !.i = 1, !.stage = "first",
                       !.givesCheck = givesCheck, !.bestScore = -SCORE_INFINITY,
                       !.bestMove = NoMove]
    IN  IF depth > s.config_.maxDepth THEN searchReturn(s)
        ELSE IF moves = <<>> THEN searchReturn(s)
        ELSE pushAndCall([s EXCEPT !.frames = <<f>>], f,
                         NodeFrame("negamax", depth - 1, -f.beta, -f.alpha, 1, givesCheck, TRUE))

\* Move Search::findBestMove(): the statements before the depth loop, then depth 1
findBestMove(s) ==
    rootIteration([s EXCEPT !.phase = "searching", !.stopped_ = FALSE, !.nodes_ = 0,
                            !.generation_ = (@ + 1) % 64,
                            !.killers_ = [p \in DOMAIN @ |-> <<NoMove, NoMove>>],
                            !.bestMove = NoMove], 1)

\* std::vector<Move> Search::extractPV(int maxLength): the moves it plays on
\* board_ with makeMoveUnchecked, in order, which are also the PV it returns;
\* path is board_ after the moves played so far
RECURSIVE extractPV(_, _, _, _)
extractPV(s, path, seen, maxLength) ==
    LET hash == positionHash(s.game, path)
        pr == probe(s.tt_, hash)
        legal == getLegalMoves(s.game, path)
    IN  IF maxLength = 0 \/ hash \in seen THEN <<>>
        ELSE IF ~pr.hit \/ pr.entry.move = NoMove THEN <<>>
        ELSE IF ~\E j \in 1..Len(legal) : legal[j] = pr.entry.move THEN <<>>
        ELSE <<pr.entry.move>>
               \o extractPV(s, Append(path, pr.entry.move), seen \cup {hash}, maxLength - 1)

\* mutant of undoPV: the first move of the PV stays on the board
undoPV_KeepFirst(board, pv) == SubSeq(board, 1, Len(board) - Len(pv) + (IF pv = <<>> THEN 0 ELSE 1))

\* extractPV's last loop, on board_ with the PV played on it: the moves are
\* unmade in reverse
undoPV(board, pv) == SubSeq(board, 1, Len(board) - Len(pv))

\* info.pv = extractPV(depth); infoCallback_(info);
reportPV(s, depth, bestScore, pv) ==
    [s EXCEPT !.infos = Append(@, [depth |-> depth, score |-> bestScore, nodes |-> s.nodes_,
                                   pv |-> pv]),
              !.board_ = undoPV(@ \o pv, pv)]

\* if (infoCallback_) { ... infoCallback_(info); }
reportInfo(s, depth, bestScore) ==
    IF s.infoCallback_
    THEN reportPV(s, depth, bestScore, extractPV(s, s.board_, {}, depth))
    ELSE s

\* mutant of rootIterationEnd: the partial iteration is not discarded
rootIterationEnd_KeepPartial(s, f) ==
    LET s1 == [s EXCEPT !.bestMove = f.bestMove,
                        !.completed = Append(@, f.bestMove),
                        !.tt_ = store(@, s.generation_, positionHash(s.game, s.board_), scoreToTT(f.bestScore, 0),
                                      f.depth, "EXACT", f.bestMove)]
        s2 == reportInfo(s1, f.depth, f.bestScore)
    IN  IF s.stopped_ THEN searchReturn(s2)
        ELSE IF f.bestScore >= SCORE_MATE - s.config_.maxDepth THEN searchReturn(s2)
        ELSE rootIteration(s2, f.depth + 1)

\* mutant of rootIterationEnd: the callback runs before stopped_ is looked at
rootIterationEnd_ReportInterrupted(s, f) ==
    LET s1 == [s EXCEPT !.bestMove = f.bestMove,
                        !.completed = Append(@, f.bestMove),
                        !.tt_ = store(@, s.generation_, positionHash(s.game, s.board_), scoreToTT(f.bestScore, 0),
                                      f.depth, "EXACT", f.bestMove)]
        s2 == reportInfo(s1, f.depth, f.bestScore)
    IN  IF s.stopped_ THEN searchReturn(reportInfo(s, f.depth, f.bestScore))
        ELSE IF f.bestScore >= SCORE_MATE - s.config_.maxDepth THEN searchReturn(s2)
        ELSE rootIteration(s2, f.depth + 1)

\* mutant of rootIterationEnd: the root entry is stored before stopped_ is looked at
rootIterationEnd_StoreInterrupted(s, f) ==
    LET st == [s EXCEPT !.tt_ = store(@, s.generation_, positionHash(s.game, s.board_), scoreToTT(f.bestScore, 0),
                                      f.depth, "EXACT", f.bestMove)]
        s1 == [st EXCEPT !.bestMove = f.bestMove, !.completed = Append(@, f.bestMove)]
        s2 == reportInfo(s1, f.depth, f.bestScore)
    IN  IF s.stopped_ THEN searchReturn(st)
        ELSE IF f.bestScore >= SCORE_MATE - s.config_.maxDepth THEN searchReturn(s2)
        ELSE rootIteration(s2, f.depth + 1)

\* findBestMove after the loop over the root moves
rootIterationEnd(s, f) ==
    LET s1 == [s EXCEPT !.bestMove = f.bestMove,
                        !.completed = Append(@, f.bestMove),
                        !.tt_ = store(@, s.generation_, positionHash(s.game, s.board_), scoreToTT(f.bestScore, 0),
                                      f.depth, "EXACT", f.bestMove)]
        s2 == reportInfo(s1, f.depth, f.bestScore)
    IN  IF s.stopped_ THEN searchReturn(s)
        ELSE IF f.bestScore >= SCORE_MATE - s.config_.maxDepth THEN searchReturn(s2)
        ELSE rootIteration(s2, f.depth + 1)

\* findBestMove's root loop for i > 0: make moves[i] and search it with a null window
rootNext(s, f) ==
    LET i == f.i + 1
        givesCheck == boardIsInCheck(s.game, Append(s.board_, f.moves[i]))
        f1 == [f EXCEPT !.i = i, !.stage = "zw", !.givesCheck = givesCheck]
    IN  pushAndCall(s, f1, NodeFrame("negamax", f.depth - 1, -f.alpha - 1, -f.alpha, 1,
                                     givesCheck, TRUE))

\* mutant of rootScored: on a stop the best move of the root moves completed at
\* this depth is taken over before the loop is left
rootScored_AdoptPartial(s, f, score) ==
    LET s1 == [s EXCEPT !.board_ = Front(@), !.searchStack_ = Front(@), !.returned = FALSE]
        f1 == [f EXCEPT !.bestScore = Max(@, score),
                        !.bestMove = IF score > f.bestScore THEN f.moves[f.i] ELSE @,
                        !.alpha = Max(@, score)]
    IN  IF s1.stopped_
          THEN rootIterationEnd([s1 EXCEPT !.bestMove = IF f.bestMove # NoMove
                                                          THEN f.bestMove ELSE @], f)
        ELSE IF f1.i < Len(f1.moves) THEN rootNext(s1, f1)
        ELSE rootIterationEnd(s1, f1)

\* findBestMove after the last search of moves[i]
rootScored(s, f, score) ==
    LET s1 == [s EXCEPT !.board_ = Front(@), !.searchStack_ = Front(@), !.returned = FALSE]
        f1 == [f EXCEPT !.bestScore = Max(@, score),
                        !.bestMove = IF score > f.bestScore THEN f.moves[f.i] ELSE @,
                        !.alpha = Max(@, score)]
    IN  IF s1.stopped_ THEN rootIterationEnd(s1, f)
        ELSE IF f1.i < Len(f1.moves) THEN rootNext(s1, f1)
        ELSE rootIterationEnd(s1, f1)

\* findBestMove when a search of moves[i] has returned
rootAfterChild(s) ==
    LET f == Frame(s)
        score == -s.ret
    IN  IF f.stage = "zw" /\ score > f.alpha /\ score < f.beta
          THEN callAgain(s, [f EXCEPT !.stage = "pvs"],
                         NodeFrame("negamax", f.depth - 1, -f.beta, -f.alpha, 1, f.givesCheck, TRUE))
        ELSE rootScored(s, f, score)

\* ====================================================== the game state machine
\* Bound: number of plies the game follows one of the recorded lines.
MaxPly == 11

VARIABLES
    pos,      \* Board::position_ (the game's board; the search's copy while it runs)
    game,     \* moves accepted by Board::makeMove since the start position
    stack,    \* the search's undo records, one per makeMoveUnchecked / makeNullMove
    search,      \* the Search object and the call stack of its findBestMove
    stopSignal,  \* the atomic config_.stopSignal points at
    tt,       \* a TranspositionTable object on its own: clusters_, generation_, stats_
    uci,      \* the Uci object: its main loop, its search thread, what they share
    perft,    \* PerftRunner::perft on a board: its call stack
    rep,      \* the board, searchStack_ and gameHistory_ that isRepetition reads
    calc      \* the numbers a call or a chain of calls works on: arguments and results

Mv(f1, r1, f2, r2, type) == Move(makeSquare(f1, r1), makeSquare(f2, r2), type)

\* Games from the standard start position, played through Board::makeMove.
Lines == <<
    \* en passant by White: 1.e4 a6 2.e5 d5 3.exd6 cxd6
    << Mv(FILE_E, RANK_2, FILE_E, RANK_4, Normal), Mv(FILE_A, RANK_7, FILE_A, RANK_6, Normal),
       Mv(FILE_E, RANK_4, FILE_E, RANK_5, Normal), Mv(FILE_D, RANK_7, FILE_D, RANK_5, Normal),
       Mv(FILE_E, RANK_5, FILE_D, RANK_6, EnPassant), Mv(FILE_C, RANK_7, FILE_D, RANK_6, Capture) >>,
    \* en passant by Black: 1.a3 e5 2.a4 e4 3.d4 exd3
    << Mv(FILE_A, RANK_2, FILE_A, RANK_3, Normal), Mv(FILE_E, RANK_7, FILE_E, RANK_5, Normal),
       Mv(FILE_A, RANK_3, FILE_A, RANK_4, Normal), Mv(FILE_E, RANK_5, FILE_E, RANK_4, Normal),
       Mv(FILE_D, RANK_2, FILE_D, RANK_4, Normal), Mv(FILE_E, RANK_4, FILE_D, RANK_3, EnPassant) >>,
    \* short castling both sides: 1.e4 e5 2.Nf3 Nf6 3.Bc4 Bc5 4.O-O O-O 5.Re1
    << Mv(FILE_E, RANK_2, FILE_E, RANK_4, Normal), Mv(FILE_E, RANK_7, FILE_E, RANK_5, Normal),
       Mv(FILE_G, RANK_1, FILE_F, RANK_3, Normal), Mv(FILE_G, RANK_8, FILE_F, RANK_6, Normal),
       Mv(FILE_F, RANK_1, FILE_C, RANK_4, Normal), Mv(FILE_F, RANK_8, FILE_C, RANK_5, Normal),
       Mv(FILE_E, RANK_1, FILE_G, RANK_1, Castling), Mv(FILE_E, RANK_8, FILE_G, RANK_8, Castling),
       Mv(FILE_F, RANK_1, FILE_E, RANK_1, Normal) >>,
    \* long castling both sides, b1 attacked by the bishop on f5:
    \* 1.d4 d5 2.c4 Bf5 3.Nc3 Nc6 4.Bf4 Qd7 5.Qd2 O-O-O 6.O-O-O e6
    << Mv(FILE_D, RANK_2, FILE_D, RANK_4, Normal), Mv(FILE_D, RANK_7, FILE_D, RANK_5, Normal),
       Mv(FILE_C, RANK_2, FILE_C, RANK_4, Normal), Mv(FILE_C, RANK_8, FILE_F, RANK_5, Normal),
       Mv(FILE_B, RANK_1, FILE_C, RANK_3, Normal), Mv(FILE_B, RANK_8, FILE_C, RANK_6, Normal),
       Mv(FILE_C, RANK_1, FILE_F, RANK_4, Normal), Mv(FILE_D, RANK_8, FILE_D, RANK_7, Normal),
       Mv(FILE_D, RANK_1, FILE_D, RANK_2, Normal), Mv(FILE_E, RANK_8, FILE_C, RANK_8, Castling),
       Mv(FILE_E, RANK_1, FILE_C, RANK_1, Castling), Mv(FILE_E, RANK_7, FILE_E, RANK_6, Normal) >>,
    \* promotion and promotion-capture: 1.a4 b5 2.axb5 a6 3.bxa6 Nc6 4.a7 Rb8 5.axb8=Q Nxb8
    << Mv(FILE_A, RANK_2, FILE_A, RANK_4, Normal), Mv(FILE_B, RANK_7, FILE_B, RANK_5, Normal),
       Mv(FILE_A, RANK_4, FILE_B, RANK_5, Capture), Mv(FILE_A, RANK_7, FILE_A, RANK_6, Normal),
       Mv(FILE_B, RANK_5, FILE_A, RANK_6, Capture), Mv(FILE_B, RANK_8, FILE_C, RANK_6, Normal),
       Mv(FILE_A, RANK_6, FILE_A, RANK_7, Normal), Mv(FILE_A, RANK_8, FILE_B, RANK_8, Normal),
       MoveP(makeSquare(FILE_A, RANK_7), makeSquare(FILE_B, RANK_8), PromotionCapture, Queen),
       Mv(FILE_C, RANK_6, FILE_B, RANK_8, Capture) >>,
    \* a rook captured on its corner: 1.b3 g5 2.Bb2 g4 3.Bxh8
    << Mv(FILE_B, RANK_2, FILE_B, RANK_3, Normal), Mv(FILE_G, RANK_7, FILE_G, RANK_5, Normal),
       Mv(FILE_C, RANK_1, FILE_B, RANK_2, Normal), Mv(FILE_G, RANK_5, FILE_G, RANK_4, Normal),
       Mv(FILE_B, RANK_2, FILE_H, RANK_8, Capture) >>,
    \* checkmate: 1.f3 e5 2.g4 Qh4#
    << Mv(FILE_F, RANK_2, FILE_F, RANK_3, Normal), Mv(FILE_E, RANK_7, FILE_E, RANK_5, Normal),
       Mv(FILE_G, RANK_2, FILE_G, RANK_4, Normal), Mv(FILE_D, RANK_8, FILE_H, RANK_4, Normal) >>,
    \* check and a pinned knight: 1.e4 d5 2.Bb5+ Nc6 3.Nf3 a6
    << Mv(FILE_E, RANK_2, FILE_E, RANK_4, Normal), Mv(FILE_D, RANK_7, FILE_D, RANK_5, Normal),
       Mv(FILE_F, RANK_1, FILE_B, RANK_5, Normal), Mv(FILE_B, RANK_8, FILE_C, RANK_6, Normal),
       Mv(FILE_G, RANK_1, FILE_F, RANK_3, Normal), Mv(FILE_A, RANK_7, FILE_A, RANK_6, Normal) >>,
    \* f1 attacked by the bishop on a6: 1.g3 b6 2.Bg2 Ba6 3.Nf3 e6 4.e3 Nf6
    << Mv(FILE_G, RANK_2, FILE_G, RANK_3, Normal), Mv(FILE_B, RANK_7, FILE_B, RANK_6, Normal),
       Mv(FILE_F, RANK_1, FILE_G, RANK_2, Normal), Mv(FILE_C, RANK_8, FILE_A, RANK_6, Normal),
       Mv(FILE_G, RANK_1, FILE_F, RANK_3, Normal), Mv(FILE_E, RANK_7, FILE_E, RANK_6, Normal),
       Mv(FILE_E, RANK_2, FILE_E, RANK_3, Normal), Mv(FILE_G, RANK_8, FILE_F, RANK_6, Normal) >>,
    \* one position by two move orders: 1.e3 d6 2.d3 and 1.d3 d6 2.e3
    << Mv(FILE_E, RANK_2, FILE_E, RANK_3, Normal), Mv(FILE_D, RANK_7, FILE_D, RANK_6, Normal),
       Mv(FILE_D, RANK_2, FILE_D, RANK_3, Normal) >>,
    << Mv(FILE_D, RANK_2, FILE_D, RANK_3, Normal), Mv(FILE_D, RANK_7, FILE_D, RANK_6, Normal),
       Mv(FILE_E, RANK_2, FILE_E, RANK_3, Normal) >>
>>

IsPrefix(g, line) == Len(g) <= Len(line) /\ \A i \in 1..Len(g) : line[i] = g[i]
SeqSet(l) == {l[i] : i \in 1..Len(l)}
OnScript(g) == \E line \in SeqSet(Lines) : IsPrefix(g, line)
ScriptNext(g) ==
    {line[Len(g) + 1] : line \in {l \in SeqSet(Lines) : IsPrefix(g, l) /\ Len(g) < Len(l)}}

\* Requests a caller may hand to Board::makeMove besides the moves of the lines:
\* the rejected moves of BoardMoveTest.cpp, the null move, moves whose kind or
\* promotion piece does not fit, and castling requests.
Probes ==
    { Mv(FILE_A, RANK_2, FILE_A, RANK_5, Normal),
      Mv(FILE_A, RANK_7, FILE_A, RANK_6, Normal),
      Mv(FILE_E, RANK_1, FILE_F, RANK_1, Normal),
      NullMove,
      Mv(FILE_E, RANK_1, FILE_G, RANK_1, Castling),
      Mv(FILE_E, RANK_1, FILE_C, RANK_1, Castling),
      Mv(FILE_E, RANK_8, FILE_G, RANK_8, Castling),
      Mv(FILE_E, RANK_5, FILE_D, RANK_6, Capture),
      Mv(FILE_C, RANK_6, FILE_D, RANK_4, Normal),
      Mv(FILE_C, RANK_6, FILE_D, RANK_4, Capture),
      Mv(FILE_A, RANK_7, FILE_B, RANK_8, PromotionCapture),
      MoveP(makeSquare(FILE_A, RANK_7), makeSquare(FILE_A, RANK_8), Promotion, Knight),
      MoveP(makeSquare(FILE_A, RANK_7), makeSquare(FILE_B, RANK_8), PromotionCapture, King) }

\* no Search object exists
NoSearch == [phase |-> "none"]

\* the objects a specification does not run
Absent == [phase |-> "none"]

Init ==
    /\ pos = StartPosition
    /\ game = <<>>
    /\ stack = <<>>
    /\ search = NoSearch
    /\ stopSignal = FALSE
    /\ tt = Absent
    /\ uci = Absent
    /\ perft = Absent
    /\ rep = Absent
    /\ calc = Absent

\* The game: Board::makeMove(m) on a request m.
GameMove(m) ==
    /\ stack = <<>>
    /\ OnScript(game)
    /\ Len(game) < MaxPly
    /\ \E r \in {BoardMakeMove(pos, m)} :
           /\ pos' = r.pos
           /\ game' = IF r.ok THEN Append(game, m) ELSE game
    /\ UNCHANGED <<stack, search, stopSignal, tt, uci, perft, rep, calc>>

\* The search on its board: makeMoveUnchecked on a member of getLegalMoves()
\* (Search.cpp:182-197, 327-347), at the root or below a null move.
SearchMake(m) ==
    /\ OnScript(game)
    /\ \A i \in 1..Len(stack) : stack[i].null
    /\ \E r \in {makeMove(pos, m)} :
           /\ pos' = r.pos
           /\ stack' = Append(stack, [null |-> FALSE, move |-> m, undo |-> r.undo,
                                      prevEp |-> SQUARE_NONE, prevHash |-> {}, before |-> pos])
    /\ UNCHANGED <<game, search, stopSignal, tt, uci, perft, rep, calc>>

\* board_.unmakeMove(moves[i], undo) (Search.cpp:211, 379)
SearchUnmake ==
    /\ stack # <<>>
    /\ ~stack[Len(stack)].null
    /\ LET e == stack[Len(stack)]
       IN  pos' = unmakeMove(pos, e.move, e.undo)
    /\ stack' = SubSeq(stack, 1, Len(stack) - 1)
    /\ UNCHANGED <<game, search, stopSignal, tt, uci, perft, rep, calc>>

\* Null-move pruning (Search.cpp:313-319): only when not in check, never twice in a row.
SearchMakeNull ==
    /\ OnScript(game)
    /\ stack = <<>>
    /\ ~isInCheck(pos, pos.sideToMove)
    /\ pos' = makeNullMove(pos)
    /\ stack' = Append(stack, [null |-> TRUE, move |-> NullMove, undo |-> <<>>,
                               prevEp |-> pos.enPassantSquare, prevHash |-> pos.hash,
                               before |-> pos])
    /\ UNCHANGED <<game, search, stopSignal, tt, uci, perft, rep, calc>>

SearchUnmakeNull ==
    /\ stack # <<>>
    /\ stack[Len(stack)].null
    /\ LET e == stack[Len(stack)]
       IN  pos' = unmakeNullMove(pos, e.prevEp, e.prevHash)
    /\ stack' = SubSeq(stack, 1, Len(stack) - 1)
    /\ UNCHANGED <<game, search, stopSignal, tt, uci, perft, rep, calc>>

LegalSet(p) == SeqSet(generateLegalMoves(p))

Next ==
    \/ \E m \in ScriptNext(game) \cup Probes : GameMove(m)
    \/ \E m \in LegalSet(pos) : SearchMake(m)
    \/ SearchUnmake
    \/ SearchMakeNull
    \/ SearchUnmakeNull

vars == <<pos, game, stack, search, stopSignal, tt, uci, perft, rep, calc>>

Spec == Init /\ [][Next]_vars

\* ============================================== the search state machine
\* Bound: the largest depth limit config_.maxDepth the search is started with.
MaxDepth == 4

\* The root positions the search is started on.
Games == <<
    \* a quiet middlegame: few captures, wide at ply 1
    [root |-> 3, width |-> <<8, 3, 2>>, caps |-> 1, qDepth |-> 2,
     dead |-> {<<2, 2, 1>>}, checks |-> {<<3>>, <<1, 3>>, <<2, 2, 1>>, <<3, 1, 2>>}, draws |-> {<<1, 2, 2>>},
     collide |-> FALSE],
    \* a tactical position: two captures at every node until ten have been made;
    \* the second root move walks into a mate in one
    [root |-> 4, width |-> <<3, 2>>, caps |-> 2, qDepth |-> 10,
     dead |-> {<<2, 3>>}, checks |-> {<<2, 3>>}, draws |-> {}, collide |-> FALSE],
    \* mate in one: the first root move leaves the opponent checkmated
    [root |-> 2, width |-> <<2>>, caps |-> 0, qDepth |-> 0,
     dead |-> {<<1>>}, checks |-> {<<1>>}, draws |-> {}, collide |-> FALSE],
    \* the side to move has no legal move
    [root |-> 0, width |-> <<2>>, caps |-> 0, qDepth |-> 0,
     dead |-> {<<>>}, checks |-> {<<>>}, draws |-> {}, collide |-> FALSE],
    \* positions of different move counts that share their table keys
    [root |-> 2, width |-> <<3, 2>>, caps |-> 3, qDepth |-> 2,
     dead |-> {}, checks |-> {}, draws |-> {}, collide |-> TRUE] >>

\* (config_.stopSignal is set, infoCallback_ is set): Uci::handleGo,
\* EngineMatch::playGame, and a Search built with the defaults
Callers == {<<TRUE, TRUE>>, <<FALSE, TRUE>>, <<FALSE, FALSE>>}

\* the search works on its own copy of the board: no game board is modelled here
NoBoard == [sideToMove |-> ColorNone]

\* The table a search is given (Uci::tt_ is shared by all searches of a
\* game): empty, or, where keys collide, holding what an earlier search on
\* other positions with the same keys left behind.
LeftoverTable ==
    [i \in 1..4 |-> IF i <= 3
                      THEN [key |-> <<i - 1>>, score |-> 0, depth |-> 5, bound |-> "UPPER",
                            gen |-> 0, move |-> 4]
                      ELSE EmptyEntry]

Tables(g) == IF g.collide THEN {EmptyTable, LeftoverTable} ELSE {EmptyTable}

InitSearch ==
    /\ pos = NoBoard
    /\ game = <<>>
    /\ stack = <<>>
    /\ \E k \in 1..Len(Games), d \in 1..MaxDepth, c \in Callers :
          \E t \in Tables(Games[k]) :
              search = [NewSearch(Games[k], d, c[1], c[2]) EXCEPT !.tt_ = t]
    /\ stopSignal = FALSE
    /\ tt = Absent
    /\ uci = Absent
    /\ perft = Absent
    /\ rep = Absent
    /\ calc = Absent

Searching == search.phase = "searching"
At(fn, pc, returned) ==
    /\ Searching
    /\ search.returned = returned
    /\ Frame(search).fn = fn
    /\ Frame(search).pc = pc

FindBestMove ==
    /\ search.phase = "idle"
    /\ search' = findBestMove(search)
    /\ UNCHANGED <<stopSignal, pos, game, stack, tt, uci, perft, rep, calc>>

NegamaxEnter ==
    /\ At("negamax", "entry", FALSE)
    /\ \E timedOut \in BOOLEAN : search' = negamaxEnter(search, stopSignal, timedOut)
    /\ UNCHANGED <<stopSignal, pos, game, stack, tt, uci, perft, rep, calc>>

NegamaxAfterNull ==
    /\ At("negamax", "null", TRUE)
    /\ search' = negamaxAfterNull(search)
    /\ UNCHANGED <<stopSignal, pos, game, stack, tt, uci, perft, rep, calc>>

NegamaxAfterChild ==
    /\ At("negamax", "child", TRUE)
    /\ search' = negamaxAfterChild(search)
    /\ UNCHANGED <<stopSignal, pos, game, stack, tt, uci, perft, rep, calc>>

QuiescenceEnter ==
    /\ At("quiescence", "entry", FALSE)
    /\ \E timedOut \in BOOLEAN : search' = quiescenceEnter(search, stopSignal, timedOut)
    /\ UNCHANGED <<stopSignal, pos, game, stack, tt, uci, perft, rep, calc>>

QuiescenceAfterChild ==
    /\ At("quiescence", "child", TRUE)
    /\ search' = quiescenceAfterChild(search)
    /\ UNCHANGED <<stopSignal, pos, game, stack, tt, uci, perft, rep, calc>>

RootAfterChild ==
    /\ At("root", "child", TRUE)
    /\ search' = rootAfterChild(search)
    /\ UNCHANGED <<stopSignal, pos, game, stack, tt, uci, perft, rep, calc>>

\* Uci::handleStop: stopFlag_.store(true), at any moment of the search. Once
\* stopped_ is set the search no longer depends on the signal.
SetStopSignal ==
    /\ Searching
    /\ search.config_.stopSignal
    /\ ~search.stopped_
    /\ ~stopSignal
    /\ stopSignal' = TRUE
    /\ search' = [search EXCEPT !.signalWindow = search.nodes_ \div 1024]
    /\ UNCHANGED <<pos, game, stack, tt, uci, perft, rep, calc>>

SearchStep ==
    \/ FindBestMove
    \/ NegamaxEnter
    \/ NegamaxAfterNull
    \/ NegamaxAfterChild
    \/ QuiescenceEnter
    \/ QuiescenceAfterChild
    \/ RootAfterChild

NextSearch ==
    \/ SearchStep
    \/ SetStopSignal

SpecSearch == InitSearch /\ [][NextSearch]_vars

\* ============================================================ claims C1 - C6
\* Chess rules stated on the board array alone, for comparing with the generator.
Sign(x) == IF x > 0 THEN 1 ELSE IF x < 0 THEN -1 ELSE 0
MaxOf(a, b) == IF a >= b THEN a ELSE b

ClearBetween(p, from, sq) ==
    LET df == getFile(sq) - getFile(from)
        dr == getRank(sq) - getRank(from)
    IN  \A k \in 1..(MaxOf(Abs(df), Abs(dr)) - 1) :
            isEmpty(p.board[makeSquare(getFile(from) + k * Sign(df), getRank(from) + k * Sign(dr))])

\* the piece standing on from attacks sq
PieceAttacksSq(p, from, sq) ==
    LET pc == p.board[from]
        df == getFile(sq) - getFile(from)
        dr == getRank(sq) - getRank(from)
        straight == (df = 0) # (dr = 0)
        diagonal == Abs(df) = Abs(dr) /\ df # 0
    IN  CASE pc.type = Pawn -> Abs(df) = 1 /\ dr = (IF pc.color = White THEN 1 ELSE -1)
          [] pc.type = Knight -> {Abs(df), Abs(dr)} = {1, 2}
          [] pc.type = King -> MaxOf(Abs(df), Abs(dr)) = 1
          [] pc.type = Rook -> straight /\ ClearBetween(p, from, sq)
          [] pc.type = Bishop -> diagonal /\ ClearBetween(p, from, sq)
          [] pc.type = Queen -> (straight \/ diagonal) /\ ClearBetween(p, from, sq)
          [] OTHER -> FALSE

AttackedBy(p, sq, c) ==
    \E from \in Squares : p.board[from].color = c /\ PieceAttacksSq(p, from, sq)

KingOnBoard(p, c) == CHOOSE sq \in Squares : p.board[sq] = Piece(King, c)

Top == stack[Len(stack)]

\* C1: whenever the search unmakes the move on top of its undo stack, every
\* field of the position (board, piece and colour bitboards, occupied,
\* kingSquare, sideToMove, castlingRights, enPassantSquare, both clocks, hash,
\* psqt) equals its value before that move was made.
C1_UnmakeRestores ==
    [][(stack # <<>> /\ ~Top.null /\ stack' = SubSeq(stack, 1, Len(stack) - 1))
          => pos' = Top.before]_vars

\* C1 witness: Black's en-passant capture is on the board and unmaking it
\* gives back the position it was made in.
C1_Witness ==
    /\ stack # <<>>
    /\ Top.move.type = EnPassant
    /\ pos.sideToMove = White
    /\ unmakeMove(pos, Top.move, Top.undo) = Top.before

\* C2: in every reachable position (after makeMove, unmakeMove, makeNullMove,
\* unmakeNullMove) the incrementally maintained hash equals what computeHash()
\* produces from placement, side to move, castling rights and en-passant file.
C2_HashMatchesRecompute == pos.hash = computeHash(pos).hash

RECURSIVE PlayLine(_, _, _)
PlayLine(p, line, i) ==
    IF i > Len(line) THEN p ELSE PlayLine(makeMove(p, line[i]).pos, line, i + 1)

\* C2 witness: 1.e3 d6 2.d3 has been played and the hash equals the hash
\* after 1.d3 d6 2.e3.
C2_Witness ==
    /\ game = Lines[10]
    /\ stack = <<>>
    /\ pos.hash = PlayLine(StartPosition, Lines[11], 1).hash
    /\ pos.hash # StartPosition.hash

\* C3: the redundant representations of the placement agree: board[sq] is
\* non-empty iff sq is in occupied; occupied is the union of the two colour
\* bitboards, which are disjoint; a piece on sq is in exactly its own piece
\* bitboard and colour bitboard; kingSquare[c] is the one square of
\* pieceBB[King] & colorBB[c].
C3_BitboardsConsistent ==
    /\ \A sq \in Squares : (~isEmpty(pos.board[sq])) <=> (sq \in pos.occupied)
    /\ pos.occupied = pos.colorBB[White] \cup pos.colorBB[Black]
    /\ pos.colorBB[White] \cap pos.colorBB[Black] = {}
    /\ \A sq \in Squares : ~isEmpty(pos.board[sq]) =>
          /\ \A pt \in Pawn..King : (sq \in pos.pieceBB[pt]) <=> (pt = pos.board[sq].type)
          /\ \A c \in White..Black : (sq \in pos.colorBB[c]) <=> (c = pos.board[sq].color)
    /\ \A c \in White..Black : pieces(pos, King, c) = {pos.kingSquare[c]}

\* C3 witness: both sides have castled short.
C3_Witness ==
    /\ Len(game) = 8
    /\ game[8].type = Castling
    /\ stack = <<>>
    /\ pos.kingSquare[Black] = makeSquare(FILE_G, RANK_8)
    /\ makeSquare(FILE_F, RANK_8) \in pieces(pos, Rook, Black)
    /\ makeSquare(FILE_G, RANK_1) \in pieces(pos, King, White)

\* the mover's king is attacked once m has been played on p
KingAttackedAfter(p, m) ==
    LET q == makeMove(p, m).pos
    IN  AttackedBy(q, KingOnBoard(q, p.sideToMove), Opp(p.sideToMove))

\* C4: generateLegalMoves returns exactly the pseudo-legal moves after which
\* the mover's king is not attacked, in the order of the pseudo-legal list.
C4_LegalIsFilteredPseudoLegal ==
    generateLegalMoves(pos)
      = SelectSeq(generatePseudoLegalMoves(pos), LAMBDA m : ~KingAttackedAfter(pos, m))

\* C4 witness: the side to move is in check and only some pseudo-legal moves are legal.
C4_Witness ==
    /\ stack = <<>>
    /\ AttackedBy(pos, KingOnBoard(pos, pos.sideToMove), Opp(pos.sideToMove))
    /\ Len(generateLegalMoves(pos)) > 0
    /\ Len(generateLegalMoves(pos)) < Len(generatePseudoLegalMoves(pos))

CastlingExpected(p, short) ==
    LET us == p.sideToMove
        rank == IF us = White THEN RANK_1 ELSE RANK_8
        right == IF us = White THEN (IF short THEN WHITE_KINGSIDE ELSE WHITE_QUEENSIDE)
                               ELSE (IF short THEN BLACK_KINGSIDE ELSE BLACK_QUEENSIDE)
        between == IF short THEN {FILE_F, FILE_G} ELSE {FILE_B, FILE_C, FILE_D}
        kingPath == IF short THEN {FILE_F, FILE_G} ELSE {FILE_D, FILE_C}
    IN  /\ right \in p.castlingRights
        /\ ~AttackedBy(p, KingOnBoard(p, us), Opp(us))
        /\ \A f \in between : isEmpty(p.board[makeSquare(f, rank)])
        /\ \A f \in kingPath : ~AttackedBy(p, makeSquare(f, rank), Opp(us))

CastlingMoveOf(p, short) ==
    LET rank == IF p.sideToMove = White THEN RANK_1 ELSE RANK_8
    IN  Move(makeSquare(FILE_E, rank), makeSquare(IF short THEN FILE_G ELSE FILE_C, rank), Castling)

\* C5: a castling move is generated for the side to move iff the right is
\* set, the king is not in check, the squares between king and rook are empty
\* and the squares the king crosses or lands on are not attacked; the B-file
\* square need not be unattacked. No other castling move is generated.
C5_CastlingGeneratedIff ==
    LET pl == generatePseudoLegalMoves(pos)
    IN  /\ \A short \in BOOLEAN :
              SeqContains(pl, CastlingMoveOf(pos, short)) <=> CastlingExpected(pos, short)
        /\ \A i \in 1..Len(pl) :
              pl[i].type = Castling => pl[i] \in {CastlingMoveOf(pos, TRUE), CastlingMoveOf(pos, FALSE)}

\* C5 witness: White may castle long although b1 is attacked.
C5_Witness ==
    /\ pos.sideToMove = White
    /\ AttackedBy(pos, makeSquare(FILE_B, RANK_1), Black)
    /\ SeqContains(generateLegalMoves(pos), CastlingMoveOf(pos, FALSE))

PseudoSet(p) == LET l == generatePseudoLegalMoves(p) IN {l[i] : i \in 1..Len(l)}

\* C6: Board::makeMove(m) returns true and applies m exactly when m is a
\* member of the legal move list; otherwise it returns false and leaves the
\* position unchanged. Checked for the requests of the game, the probes and
\* every pseudo-legal move, wherever the game calls Board::makeMove.
C6_BoardMakeMoveChecksLegality ==
    (stack = <<>>) =>
        LET legal == LegalSet(pos)
        IN  \A m \in ScriptNext(game) \cup Probes \cup PseudoSet(pos) :
                LET r == BoardMakeMove(pos, m)
                IN  /\ r.ok <=> (m \in legal)
                    /\ r.ok => (r.pos = makeMove(pos, m).pos /\ r.pos # pos)
                    /\ ~r.ok => r.pos = pos

\* C6 witness: moves have been accepted, the side to move is in check, and a
\* pseudo-legal move that leaves the king in check is refused.
C6_Witness ==
    /\ stack = <<>>
    /\ Len(game) = 3
    /\ \E m \in PseudoSet(pos) :
          /\ m \notin LegalSet(pos)
          /\ ~BoardMakeMove(pos, m).ok
          /\ BoardMakeMove(pos, m).pos = pos

\* ============================================================ claims C7 - C10
RootMoves(s) == LET l == getLegalMoves(s.game, <<>>) IN {l[i] : i \in 1..Len(l)}

Done == search.phase = "done"

\* C7 (as the specification states it): whatever the time budget and whenever
\* the stop signal is set, findBestMove returns a member of the root position's
\* legal move list when there is one, and the null move only when there is none.
C7_ReturnsLegalMove ==
    Done => IF RootMoves(search) # {} THEN search.result \in RootMoves(search)
            ELSE search.result = NoMove

\* C8: when the search is stopped during the iteration at root depth d >= 2,
\* exactly d - 1 iterations have completed and findBestMove returns the best
\* move of iteration d - 1, whatever the root moves searched at depth d gave.
C8_StoppedReturnsLastCompleted ==
    (Done /\ search.stopped_ /\ search.stoppedAt >= 2) =>
        /\ Len(search.completed) = search.stoppedAt - 1
        /\ search.result = search.completed[search.stoppedAt - 1]

\* stopped at depth d >= 2 when depthBest of depth d was another move than the
\* best move of depth d - 1
C8_Witness ==
    /\ Done
    /\ search.stopped_
    /\ search.stoppedAt >= 2
    /\ search.discarded \notin {NoMove, search.result}
    /\ search.result = search.completed[search.stoppedAt - 1]

\* a node has been entered and its first statement has not run yet
EntryPending == Searching /\ ~search.returned /\ Frame(search).pc = "entry"

\* every multiple of 1024 that nodes_ has reached was sampled by checkTime,
\* the one of a node just entered excepted
AllSampled ==
    \A k \in 1..(search.nodes_ \div 1024) :
        \/ 1024 * k \in search.sampled
        \/ 1024 * k = search.nodes_ /\ EntryPending

\* once the stop signal is set, nodes_ does not pass the next multiple of 1024
StopWithin1024 ==
    stopSignal => search.nodes_ <= (search.signalWindow + 1) * 1024

\* what is left of the call stack once stopped_ is set: a call of negamax that
\* searched moves[i] with a null window may still be searched again twice
FrameWeight(f) ==
    IF f.pc = "child" /\ f.stage = "zw" THEN 5
    ELSE IF f.pc = "child" /\ f.stage = "rezw" THEN 3
    ELSE 1

RECURSIVE StackWeight(_)
StackWeight(frames) ==
    IF frames = <<>> THEN 0 ELSE FrameWeight(Last(frames)) + StackWeight(Front(frames))

\* the step of a node entry at which checkTime runs with the stop signal set
ObservesSignal ==
    (EntryPending /\ search.nodes_ % 1024 = 0 /\ stopSignal /\ search' # search)
        => search'.stopped_

\* a step of the stopped search: no node is counted, no move is made on the
\* board, and the call stack unwinds
Unwinds ==
    search.stopped_ =>
        /\ search'.nodes_ = search.nodes_
        /\ IsPrefix(search'.board_, search.board_)
        /\ StackWeight(search'.frames) < StackWeight(search.frames)
        /\ search'.stopped_

\* C9: the stop signal is observed at the next node entry whose node count is a
\* multiple of 1024; every such count reached is sampled, so nodes_ grows by at
\* most 1024 after the signal; once stopped_ is set no move is made, no node is
\* counted and every step unwinds the call stack until findBestMove returns.
C9_StopSignalObserved ==
    /\ [](AllSampled /\ StopWithin1024)
    /\ []((Searching /\ search.stopped_) => ENABLED SearchStep)
    /\ [][ObservesSignal /\ Unwinds]_vars

\* the signal was set before node 1024, observed there, and findBestMove returned
C9_Witness ==
    /\ Done
    /\ stopSignal
    /\ search.signalWindow = 0
    /\ search.stopped_
    /\ search.nodes_ = 1024
    /\ 1024 \in search.sampled

\* the iteration at the root depth of the running search completes in this step
IterationCompletes ==
    /\ Searching
    /\ ~search'.stopped_
    /\ \/ search'.phase = "done"
       \/ search'.frames[1].depth = search.frames[1].depth + 1

\* the callback runs once, with the depth just completed and the nodes so far
CallbackOnce ==
    /\ Len(search'.infos) = Len(search.infos) + 1
    /\ SubSeq(search'.infos, 1, Len(search.infos)) = search.infos
    /\ Last(search'.infos).depth = search.frames[1].depth
    /\ Last(search'.infos).nodes = search.nodes_

InfoPerIteration ==
    IF IterationCompletes /\ search.infoCallback_ THEN CallbackOnce
    ELSE search'.infos = search.infos

\* C10: with a callback set, it is invoked once in the step that completes an
\* iteration and in no other step, so the depths reported are 1, 2, 3, ... in
\* this order and an interrupted iteration is never reported.
C10_InfoOncePerCompletedDepth ==
    /\ [](\A i \in 1..Len(search.infos) : search.infos[i].depth = i)
    /\ []((Done /\ search.stopped_ /\ search.infoCallback_)
              => Len(search.infos) = search.stoppedAt - 1)
    /\ [][InfoPerIteration]_vars

\* two iterations were reported, the third was interrupted and is not
C10_Witness ==
    /\ Done
    /\ search.infoCallback_
    /\ search.stopped_
    /\ search.stoppedAt = 3
    /\ Len(search.infos) = 2
    /\ search.infos[2].depth = 2

\* ================================================= the transposition table
\* TranspositionTable (ai/TranspositionTable.h/.cpp) with its packed entries:
\* clusters_ maps a cluster index to four entries, an entry's key is the
\* 16-bit verification key and its move the 16-bit code of setMove. A 64-bit
\* hash is held as <<its upper 16 bits, its lower 48 bits>>.

\* static uint16_t verifyKey(uint64_t hash): hash >> 48
verifyKey(hash) == hash[1]

\* size_t clusterIndex(uint64_t hash): hash & mask_, mask_ + 1 a power of two
clusterIndex(hash, mask) == hash[2] % (mask + 1)

promoIdx(pt) ==
    CASE pt = Knight -> 1
      [] pt = Bishop -> 2
      [] pt = Rook -> 3
      [] OTHER -> 0

\* void TTEntry::setMove(const Move&): from(6) | to(6) | typePromo(4), as uint16_t
setMove(m) ==
    IF isNull(m) THEN 0
    ELSE LET typePromo == IF m.type = Promotion \/ m.type = PromotionCapture
                            THEN (IF m.type = PromotionCapture THEN 8 ELSE 4) + promoIdx(m.promotion)
                            ELSE m.type
         IN  (m.from * 1024 + m.to * 16 + typePromo) % 65536

promoTable == <<Queen, Knight, Bishop, Rook>>

\* Move TTEntry::bestMove() const
entryBestMove(move16) ==
    IF move16 = 0 THEN NullMove
    ELSE LET from == (move16 \div 1024) % 64
             to == (move16 \div 16) % 64
             typePromo == move16 % 16
         IN  IF typePromo >= 8 THEN MoveP(from, to, PromotionCapture, promoTable[typePromo - 8 + 1])
             ELSE IF typePromo >= 4 THEN MoveP(from, to, Promotion, promoTable[typePromo - 4 + 1])
             ELSE Move(from, to, typePromo)

\* TTEntry{} and TTCluster{} of the packed table: hashVerify = 0
EmptySlot == [EmptyEntry EXCEPT !.key = 0]
EmptyCluster == [i \in 1..4 |-> EmptySlot]

\* TranspositionTable::TranspositionTable(sizeMB): mask_ + 1 empty clusters.
\* History kept beside the object's fields: evictions, the stores that found
\* neither their key nor an empty slot in the cluster.
NewTable(mask, generation) ==
    [phase |-> "table", mask_ |-> mask,
     clusters_ |-> [c \in 0..mask |-> EmptyCluster],
     generation_ |-> generation,
     stats_ |-> [probes |-> 0, hits |-> 0, stores |-> 0],
     evictions |-> 0]

\* a non-empty entry of the cluster carries the key
keyPresent(cluster, key) == \E i \in 1..4 : ~entryIsEmpty(cluster[i]) /\ cluster[i].key = key

clusterFull(cluster) == \A i \in 1..4 : ~entryIsEmpty(cluster[i])

\* void TranspositionTable::store(hash, score, depth, bound, bestMove) on the table
ttStore(t, hash, score, depth, bound, bestMove) ==
    [t EXCEPT !.stats_.stores = @ + 1,
              !.evictions = IF /\ clusterFull(t.clusters_[clusterIndex(hash, t.mask_)])
                               /\ ~keyPresent(t.clusters_[clusterIndex(hash, t.mask_)], verifyKey(hash))
                              THEN @ + 1 ELSE @,
              !.clusters_[clusterIndex(hash, t.mask_)] =
                  store(@, t.generation_, verifyKey(hash), score, depth, bound, setMove(bestMove))]

\* bool TranspositionTable::probe(hash, out) on the table: the answer and out
ttProbe(t, hash) == probe(t.clusters_[clusterIndex(hash, t.mask_)], verifyKey(hash))

\* what probe(hash, out) counts in stats_
ttProbeStats(t, hash) ==
    [t EXCEPT !.stats_.probes = @ + 1,
              !.stats_.hits = IF ttProbe(t, hash).hit THEN @ + 1 ELSE @]

\* void TranspositionTable::newSearch()
ttNewSearch(t) == [t EXCEPT !.generation_ = (@ + 1) % 64]

\* void TranspositionTable::clear()
ttClear(t) ==
    [t EXCEPT !.clusters_ = [c \in 0..t.mask_ |-> EmptyCluster],
              !.generation_ = 0,
              !.stats_ = [probes |-> 0, hits |-> 0, stores |-> 0],
              !.evictions = 0]

\* Bound: store() calls since the table was constructed or cleared (stats_.stores).
MaxStores == 5
\* Bound: newSearch() is not called once generation_ has this value.
MaxGeneration == 1
\* Bound: probe() calls since the table was constructed or cleared (stats_.probes).
MaxProbes == 1

\* a hash with verification key k that selects cluster i
Hash(k, i) == <<k, i>>

Req(hash, score, depth, bound, move) ==
    [hash |-> hash, score |-> score, depth |-> depth, bound |-> bound, move |-> move]

\* The store() calls made on the table: those of TranspositionTableTest.cpp
\* (five keys on one cluster, a deeper and a shallower entry for a stored key)
\* and those of the search (mate scores of scoreToTT, depth 0 of quiescence,
\* the null move of a node without a best move, every kind of move).
Requests ==
    { Req(Hash(0, 1), 0, 1, "LOWER", Mv(FILE_A, RANK_1, FILE_A, RANK_2, Normal)),
      Req(Hash(1, 1), 10, 1, "LOWER", Mv(FILE_B, RANK_1, FILE_B, RANK_2, Capture)),
      Req(Hash(2, 1), 20, 2, "UPPER", Mv(FILE_E, RANK_1, FILE_G, RANK_1, Castling)),
      Req(Hash(3, 1), -32768, 1, "LOWER", Mv(FILE_E, RANK_5, FILE_D, RANK_6, EnPassant)),
      Req(Hash(4, 1), 99, 3, "EXACT",
          MoveP(makeSquare(FILE_A, RANK_7), makeSquare(FILE_A, RANK_8), Promotion, Knight)),
      Req(Hash(1, 1), 32767, 5, "UPPER", Mv(FILE_D, RANK_2, FILE_D, RANK_4, Normal)),
      Req(Hash(1, 1), -99998, 0, "UPPER", NullMove),
      Req(Hash(2, 1), 99999, 0, "EXACT",
          MoveP(makeSquare(FILE_B, RANK_7), makeSquare(FILE_A, RANK_8), PromotionCapture, Rook)),
      Req(Hash(2, 0), 42, 5, "EXACT", Mv(FILE_E, RANK_2, FILE_E, RANK_4, Normal)) }

ProbeHashes == {r.hash : r \in Requests} \cup {Hash(6, 1), Hash(0, 0)}

\* A table of two clusters, just constructed, or after 63 searches that stored
\* nothing (findBestMove calls newSearch() and returns when the side to move
\* has no legal move).
InitTT ==
    /\ pos = NoBoard
    /\ game = <<>>
    /\ stack = <<>>
    /\ search = NoSearch
    /\ stopSignal = FALSE
    /\ \E g \in {0, 63} : tt = NewTable(1, g)
    /\ uci = Absent
    /\ perft = Absent
    /\ rep = Absent
    /\ calc = Absent

TTStore(r) ==
    /\ tt.stats_.stores < MaxStores
    /\ tt' = ttStore(tt, r.hash, r.score, r.depth, r.bound, r.move)
    /\ UNCHANGED <<pos, game, stack, search, stopSignal, uci, perft, rep, calc>>

TTProbe(hash) ==
    /\ tt.stats_.probes < MaxProbes
    /\ tt' = ttProbeStats(tt, hash)
    /\ UNCHANGED <<pos, game, stack, search, stopSignal, uci, perft, rep, calc>>

TTNewSearch ==
    /\ tt.generation_ # MaxGeneration
    /\ tt' = ttNewSearch(tt)
    /\ UNCHANGED <<pos, game, stack, search, stopSignal, uci, perft, rep, calc>>

TTClear ==
    /\ tt' = ttClear(tt)
    /\ UNCHANGED <<pos, game, stack, search, stopSignal, uci, perft, rep, calc>>

NextTT ==
    \/ \E r \in Requests : TTStore(r)
    \/ \E hash \in ProbeHashes : TTProbe(hash)
    \/ TTNewSearch
    \/ TTClear

SpecTT == InitTT /\ [][NextTT]_vars

\* ============================================================ the UCI driver
\* Uci.cpp: the main thread reads command lines and runs their handlers; the
\* search runs in searchThread_ on copies of the board and the game history
\* and on the shared table tt_.  A handler that calls joinSearch() blocks
\* while searchThread_ is joinable and its thread has not finished, so each
\* handler is two steps: ReadLine dispatches it (handleStop first sets the
\* stop flag), and the Handle action is the rest of it from the return of
\* joinSearch().  Every std::thread started is kept in  threads, so that the
\* number of running searches is counted and not assumed.

MaxLines == 4
MaxThreadStores == 1

Commands == {"uci", "isready", "ucinewgame", "position", "go", "stop", "quit"}

\* "position startpos moves ...": the board is written as the moves played
\* from the start position, the hash of a position as the position itself.
PositionArgs == {<<>>, <<"e2e4">>, <<"e2e4", "e7e5">>}

\* The table writes of one search.
ThreadRequests ==
    { Req(Hash(0, 1), 0, 1, "LOWER", Mv(FILE_A, RANK_1, FILE_A, RANK_2, Normal)),
      Req(Hash(2, 0), 42, 5, "EXACT", Mv(FILE_E, RANK_2, FILE_E, RANK_4, Normal)) }

NewUci ==
    [phase |-> "uci", main |-> "idle", lines |-> 0, board_ |-> <<>>,
     gameHistory_ |-> <<>>, stopFlag_ |-> FALSE, searchThread_ |-> 0,
     threads |-> <<>>]

joinable(u) == u.searchThread_ # 0

joinSearchReturns_NoWait(u) == TRUE

\* joinSearch() returns at once when searchThread_ is not joinable, and
\* otherwise when the thread has finished.
joinSearchReturns(u) == joinable(u) => u.threads[u.searchThread_].pc = "done"

joinSearch(u) == [u EXCEPT !.searchThread_ = 0, !.main = "idle"]

liveThreads(u) == {i \in 1..Len(u.threads) : u.threads[i].pc # "done"}

applyMoves(args) == [i \in 1..Len(args) |-> SubSeq(args, 1, i - 1)]

InitUci ==
    /\ pos = NoBoard
    /\ game = <<>>
    /\ stack = <<>>
    /\ search = NoSearch
    /\ stopSignal = FALSE
    /\ tt = NewTable(1, 0)
    /\ uci = NewUci
    /\ perft = Absent
    /\ rep = Absent
    /\ calc = Absent

ReadLine(cmd) ==
    /\ uci.main = "idle"
    /\ uci.lines < MaxLines
    /\ uci' = [uci EXCEPT !.main = cmd, !.lines = @ + 1,
                          !.stopFlag_ = IF cmd \in {"stop", "quit"} THEN TRUE ELSE @]
    /\ UNCHANGED <<pos, game, stack, search, stopSignal, tt, perft, rep, calc>>

EndOfInput ==
    /\ uci.main = "idle"
    /\ uci' = [uci EXCEPT !.main = "eof"]
    /\ UNCHANGED <<pos, game, stack, search, stopSignal, tt, perft, rep, calc>>

HandleUci ==
    /\ uci.main = "uci"
    /\ uci' = [uci EXCEPT !.main = "idle"]
    /\ UNCHANGED <<pos, game, stack, search, stopSignal, tt, perft, rep, calc>>

HandleIsReady ==
    /\ uci.main = "isready"
    /\ joinSearchReturns(uci)
    /\ uci' = joinSearch(uci)
    /\ UNCHANGED <<pos, game, stack, search, stopSignal, tt, perft, rep, calc>>

HandleNewGame ==
    /\ uci.main = "ucinewgame"
    /\ joinSearchReturns(uci)
    /\ tt' = ttClear(tt)
    /\ uci' = [joinSearch(uci) EXCEPT !.board_ = <<>>, !.gameHistory_ = <<>>]
    /\ UNCHANGED <<pos, game, stack, search, stopSignal, perft, rep, calc>>

HandlePosition(args) ==
    /\ uci.main = "position"
    /\ joinSearchReturns(uci)
    /\ uci' = [joinSearch(uci) EXCEPT !.board_ = args, !.gameHistory_ = applyMoves(args)]
    /\ UNCHANGED <<pos, game, stack, search, stopSignal, tt, perft, rep, calc>>

HandleGo ==
    /\ uci.main = "go"
    /\ joinSearchReturns(uci)
    /\ uci' = [joinSearch(uci) EXCEPT
                 !.stopFlag_ = FALSE,
                 !.searchThread_ = Len(uci.threads) + 1,
                 !.threads = Append(@, [pc |-> "start", boardCopy |-> uci.board_,
                                        historyCopy |-> uci.gameHistory_, stores |-> 0])]
    /\ UNCHANGED <<pos, game, stack, search, stopSignal, tt, perft, rep, calc>>

HandleStop ==
    /\ uci.main = "stop"
    /\ joinSearchReturns(uci)
    /\ uci' = joinSearch(uci)
    /\ UNCHANGED <<pos, game, stack, search, stopSignal, tt, perft, rep, calc>>

HandleQuit ==
    /\ uci.main \in {"quit", "eof"}
    /\ joinSearchReturns(uci)
    /\ uci' = [joinSearch(uci) EXCEPT !.main = "exited"]
    /\ UNCHANGED <<pos, game, stack, search, stopSignal, tt, perft, rep, calc>>

\* The search thread: Search::Search and the newSearch() of findBestMove,
\* then the stores of the search while it is not stopped, then "bestmove".
ThreadStart(i) ==
    /\ uci.threads[i].pc = "start"
    /\ tt' = ttNewSearch(tt)
    /\ uci' = [uci EXCEPT !.threads[i].pc = "search"]
    /\ UNCHANGED <<pos, game, stack, search, stopSignal, perft, rep, calc>>

ThreadStore(i, r) ==
    /\ uci.threads[i].pc = "search"
    /\ ~uci.stopFlag_
    /\ uci.threads[i].stores < MaxThreadStores
    /\ tt' = ttStore(tt, r.hash, r.score, r.depth, r.bound, r.move)
    /\ uci' = [uci EXCEPT !.threads[i].stores = @ + 1]
    /\ UNCHANGED <<pos, game, stack, search, stopSignal, perft, rep, calc>>

ThreadFinish(i) ==
    /\ uci.threads[i].pc = "search"
    /\ uci' = [uci EXCEPT !.threads[i].pc = "done"]
    /\ UNCHANGED <<pos, game, stack, search, stopSignal, tt, perft, rep, calc>>

NextUci ==
    \/ \E cmd \in Commands : ReadLine(cmd)
    \/ EndOfInput
    \/ HandleUci
    \/ HandleIsReady
    \/ HandleNewGame
    \/ \E args \in PositionArgs : HandlePosition(args)
    \/ HandleGo
    \/ HandleStop
    \/ HandleQuit
    \/ \E i \in 1..Len(uci.threads) : ThreadStart(i)
    \/ \E i \in 1..Len(uci.threads), r \in ThreadRequests : ThreadStore(i, r)
    \/ \E i \in 1..Len(uci.threads) : ThreadFinish(i)

SpecUci == InitUci /\ [][NextUci]_vars

\* ================================================================== perft
\* FenParser.cpp builds the test positions; a FEN field is written as the
\* sequence of its characters.

fromFenChar(c) ==
    CASE c = "P" -> Piece(Pawn, White)   [] c = "p" -> Piece(Pawn, Black)
      [] c = "N" -> Piece(Knight, White) [] c = "n" -> Piece(Knight, Black)
      [] c = "B" -> Piece(Bishop, White) [] c = "b" -> Piece(Bishop, Black)
      [] c = "R" -> Piece(Rook, White)   [] c = "r" -> Piece(Rook, Black)
      [] c = "Q" -> Piece(Queen, White)  [] c = "q" -> Piece(Queen, Black)
      [] c = "K" -> Piece(King, White)   [] c = "k" -> Piece(King, Black)
      [] OTHER -> NoPiece

emptyCount(c) ==
    CASE c = "1" -> 1 [] c = "2" -> 2 [] c = "3" -> 3 [] c = "4" -> 4
      [] c = "5" -> 5 [] c = "6" -> 6 [] c = "7" -> 7 [] c = "8" -> 8
      [] OTHER -> 0

\* the characters of one rank of the placement field, one piece per file
RECURSIVE parseRank(_, _)
parseRank(rankStr, k) ==
    IF k > Len(rankStr) THEN <<>>
    ELSE (IF emptyCount(rankStr[k]) > 0
            THEN [i \in 1..emptyCount(rankStr[k]) |-> NoPiece]
            ELSE <<fromFenChar(rankStr[k])>>) \o parseRank(rankStr, k + 1)

\* the piece the placement field puts on a square: ranks[0] is rank 8
placedPiece(ranks, sq) == parseRank(ranks[RANK_8 - getRank(sq) + 1], 1)[getFile(sq) - FILE_A + 1]

\* Position::setPiece(sq, piece) for every piece of the board  at:  the board
\* array, both bitboard families, occupied_ and the king squares
setPieces(p, at) ==
    [p EXCEPT
        !.board = at,
        !.pieceBB = [pt \in Pawn..King |-> {sq \in Squares : at[sq].type = pt}],
        !.colorBB = [c \in White..Black |-> {sq \in Squares : at[sq].color = c}],
        !.occupied = {sq \in Squares : ~isEmpty(at[sq])},
        !.kingSquare = [c \in White..Black |->
                          IF \E sq \in Squares : at[sq] = Piece(King, c)
                            THEN CHOOSE sq \in Squares : at[sq] = Piece(King, c)
                            ELSE SQUARE_NONE]]

\* FenParser::parsePiecePlacement: from rank 8 down to rank 1
parsePiecePlacement(ranks, p) ==
    setPieces(p, [sq \in Squares |-> placedPiece(ranks, sq)])

\* Position FenParser::parse(const std::string&)
FenParse(fen) ==
    computeHash([parsePiecePlacement(fen.placement, EmptyPosition) EXCEPT
                    !.sideToMove = fen.activeColor,
                    !.castlingRights = fen.castling,
                    !.enPassantSquare = fen.enPassant,
                    !.halfmoveClock = fen.halfmove,
                    !.fullmoveNumber = fen.fullmove])

\* r3k2r/p1ppqpb1/bn2pnp1/3PN3/1p2P3/2N2Q1p/PPPBBPPP/R3K2R w KQkq - 0 1
KiwipeteFen ==
    [placement |-> << <<"r", "3", "k", "2", "r">>,
                      <<"p", "1", "p", "p", "q", "p", "b", "1">>,
                      <<"b", "n", "2", "p", "n", "p", "1">>,
                      <<"3", "P", "N", "3">>,
                      <<"1", "p", "2", "P", "3">>,
                      <<"2", "N", "2", "Q", "1", "p">>,
                      <<"P", "P", "P", "B", "B", "P", "P", "P">>,
                      <<"R", "3", "K", "2", "R">> >>,
     activeColor |-> White, castling |-> ALL_CASTLING, enPassant |-> SQUARE_NONE,
     halfmove |-> 0, fullmove |-> 1]

MaxStartDepth == 4
MaxKiwipeteDepth == 3

\* The boards and depths perft is run on (PerftTest.cpp).
PerftBoard(name) == IF name = "initial" THEN StartPosition ELSE FenParse(KiwipeteFen)

PerftJobs ==
    {<<"initial", d>> : d \in 0..MaxStartDepth} \cup
    {<<"kiwipete", d>> : d \in 0..MaxKiwipeteDepth}

\* The reference node counts required by PerftTest.cpp.
ReferenceNodes ==
    [initial |-> <<20, 400, 8902, 197281, 4865609>>,
     kiwipete |-> <<48, 2039, 97862, 4085603>>]

\* One call of PerftRunner::perft(board, depth) on the stack: its move list,
\* the index of the move of the loop, the sum so far, and the UndoInfo of the
\* move that is made.
PerftFrame(moves, depth) ==
    [moves |-> moves, i |-> 1, nodes |-> 0, depth |-> depth, undo |-> <<>>]

NewPerft(name, depth) ==
    [phase |-> "perft", name |-> name, depth |-> depth, board |-> PerftBoard(name),
     frames |-> <<>>, pc |-> "call", arg |-> depth, ret |-> 0, result |-> -1]

InitPerft ==
    /\ pos = NoBoard
    /\ game = <<>>
    /\ stack = <<>>
    /\ search = NoSearch
    /\ stopSignal = FALSE
    /\ tt = Absent
    /\ uci = Absent
    /\ \E job \in PerftJobs : perft = NewPerft(job[1], job[2])
    /\ rep = Absent
    /\ calc = Absent

perftTop == perft.frames[Len(perft.frames)]

perftLeafCount(moves) == Len(moves)

\* perft() up to the loop: depth 0 is one leaf, depth 1 the size of the list
perftEnter(pf, moves) ==
    IF pf.arg = 1
      THEN [pf EXCEPT !.pc = "ret", !.ret = perftLeafCount(moves)]
      ELSE [pf EXCEPT !.pc = "loop", !.frames = Append(@, PerftFrame(moves, pf.arg))]

PerftCall ==
    /\ perft.pc = "call"
    /\ perft' = IF perft.arg = 0 THEN [perft EXCEPT !.pc = "ret", !.ret = 1]
                ELSE perftEnter(perft, generateLegalMoves(perft.board))
    /\ UNCHANGED <<pos, game, stack, search, stopSignal, tt, uci, rep, calc>>

\* UndoInfo undo = board.makeMoveUnchecked(move); perft(board, depth - 1)
PerftMake ==
    /\ perft.pc = "loop"
    /\ perftTop.i <= Len(perftTop.moves)
    /\ \E mk \in {makeMove(perft.board, perftTop.moves[perftTop.i])} :
          perft' = [perft EXCEPT !.board = mk.pos,
                                 !.frames[Len(perft.frames)].undo = mk.undo,
                                 !.pc = "call",
                                 !.arg = perftTop.depth - 1]
    /\ UNCHANGED <<pos, game, stack, search, stopSignal, tt, uci, rep, calc>>

\* nodes += (the value returned); board.unmakeMove(move, undo)
PerftUnmake ==
    /\ perft.pc = "ret"
    /\ perft.frames # <<>>
    /\ perft' = [perft EXCEPT
                   !.board = unmakeMove(@, perftTop.moves[perftTop.i], perftTop.undo),
                   !.frames[Len(perft.frames)] =
                       [@ EXCEPT !.nodes = @ + perft.ret, !.i = @ + 1, !.undo = <<>>],
                   !.pc = "loop"]
    /\ UNCHANGED <<pos, game, stack, search, stopSignal, tt, uci, rep, calc>>

\* return nodes
PerftReturn ==
    /\ perft.pc = "loop"
    /\ perftTop.i > Len(perftTop.moves)
    /\ perft' = [perft EXCEPT !.frames = SubSeq(@, 1, Len(@) - 1),
                              !.pc = "ret",
                              !.ret = perftTop.nodes]
    /\ UNCHANGED <<pos, game, stack, search, stopSignal, tt, uci, rep, calc>>

\* the outermost call returns to the test
PerftDone ==
    /\ perft.pc = "ret"
    /\ perft.frames = <<>>
    /\ perft' = [perft EXCEPT !.pc = "done", !.result = perft.ret]
    /\ UNCHANGED <<pos, game, stack, search, stopSignal, tt, uci, rep, calc>>

NextPerft ==
    \/ PerftCall
    \/ PerftMake
    \/ PerftUnmake
    \/ PerftReturn
    \/ PerftDone

SpecPerft == InitPerft /\ [][NextPerft]_vars

\* ================================================= repetition detection layer
\* Search::isRepetition and the bookkeeping it reads, on a board small enough
\* to repeat: White has a piece that moves between two squares and a pawn
\* that can advance, Black a king that moves between three mutually adjacent
\* squares. A position is the placement, the side to move and the number of
\* pawn advances made; its hash_ is the position itself.
MaxPawnMoves == 1
MaxRepDepth == 9

RepStart == [w |-> 0, b |-> 0, side |-> "w", pawns |-> 0]

QuietMove(to) == [kind |-> "quiet", to |-> to]
PawnMove == [kind |-> "pawn", to |-> 0]

\* Board::getLegalMoves() on the small board
repLegalMoves(p) ==
    IF p.side = "w"
    THEN {QuietMove(1 - p.w)} \cup (IF p.pawns < MaxPawnMoves THEN {PawnMove} ELSE {})
    ELSE {QuietMove(t) : t \in (0..2) \ {p.b}}

\* Position::makeMove on a board [pos, halfmoveClock]: a pawn move resets the
\* clock, any other move here (no captures) increments it
repMakeMove(b, m) ==
    LET flip == IF b.pos.side = "w" THEN "b" ELSE "w"
    IN  IF m.kind = "pawn"
        THEN [pos |-> [b.pos EXCEPT !.pawns = @ + 1, !.side = flip], halfmoveClock |-> 0]
        ELSE [pos |-> IF b.pos.side = "w" THEN [b.pos EXCEPT !.w = m.to, !.side = flip]
                                           ELSE [b.pos EXCEPT !.b = m.to, !.side = flip],
              halfmoveClock |-> b.halfmoveClock + 1]

\* Position::makeNullMove: the side to move changes, the clock does not
repMakeNullMove(b) ==
    [b EXCEPT !.pos.side = IF b.pos.side = "w" THEN "b" ELSE "w"]

\* Uci::handlePosition: the hash of the position before each game move is
\* pushed on gameHistory_, then the move is made
RECURSIVE repPlay(_, _, _)
repPlay(b, history, moves) ==
    IF moves = <<>> THEN [board_ |-> b, gameHistory_ |-> history]
    ELSE repPlay(repMakeMove(b, Head(moves)), Append(history, b.pos), Tail(moves))

\* one round of quiet moves that returns to the position it started from
RepCycle == <<QuietMove(1), QuietMove(1), QuietMove(0), QuietMove(0)>>

\* the games played before "go"
RepGames == <<
    <<>>,
    RepCycle,
    RepCycle \o RepCycle,
    <<QuietMove(1), QuietMove(1)>> \o <<PawnMove, QuietMove(0)>> >>

RepDepths == {3, MaxRepDepth}

\* bool MoveGenerator::isDraw(position): the 50-move rule (no other draw rule
\* applies on this board)
repIsDraw(b) == b.halfmoveClock >= 100

\* bool Search::isRepetition() const; indices are those of the code (from 0)
isRepetition(b, searchStack_, gameHistory_) ==
    LET hash == b.pos
        halfmove == b.halfmoveClock
        searchSize == Len(searchStack_)
        searchLookback == Min(searchSize, halfmove)
        historyLookback == halfmove - searchSize
        histSize == Len(gameHistory_)
        start == Max(histSize - historyLookback, 0)
    IN  \/ \E i \in (searchSize - searchLookback)..(searchSize - 1) : searchStack_[i + 1] = hash
        \/ /\ historyLookback > 0
           /\ Cardinality({i \in start..(histSize - 1) : gameHistory_[i + 1] = hash}) >= 2

\* a call of negamax (or, at the bottom, findBestMove) on the search path: the
\* position it was called in, what brought the board there and what undoes
\* it, and how far the call has come: "entry" before its first statement,
\* "draw" returned SCORE_DRAW, "leaf" went on to quiescence, "open" past the
\* draw test, "moves" in its move loop
RepFrame(p, via, undo, depth, nullOk, pc) ==
    [pos |-> p, via |-> via, undo |-> undo, depth |-> depth, nullOk |-> nullOk, pc |-> pc]

\* findBestMove at depth `depth` after the game `moves`: it is in its move loop
NewRep(moves, depth) ==
    LET g == repPlay([pos |-> RepStart, halfmoveClock |-> 0], <<>>, moves)
    IN  [phase |-> "rep", board_ |-> g.board_, gameHistory_ |-> g.gameHistory_,
         searchStack_ |-> <<>>,
         frames |-> <<RepFrame(g.board_.pos, "root", g.board_, depth, FALSE, "moves")>>]

InitRep ==
    /\ pos = NoBoard
    /\ game = <<>>
    /\ stack = <<>>
    /\ search = NoSearch
    /\ stopSignal = FALSE
    /\ tt = Absent
    /\ uci = Absent
    /\ perft = Absent
    /\ \E k \in 1..Len(RepGames), d \in RepDepths : rep = NewRep(RepGames[k], d)
    /\ calc = Absent

repTop == rep.frames[Len(rep.frames)]

\* negamax from its entry to the end of its draw test and its depth test
RepEnter ==
    /\ rep.phase = "rep"
    /\ repTop.pc = "entry"
    /\ rep' = [rep EXCEPT !.frames[Len(rep.frames)].pc =
                    IF repIsDraw(rep.board_) \/ isRepetition(rep.board_, rep.searchStack_, rep.gameHistory_)
                    THEN "draw"
                    ELSE IF repTop.depth = 0 THEN "leaf" ELSE "open"]
    /\ UNCHANGED <<pos, game, stack, search, stopSignal, tt, uci, perft, calc>>

\* negamax makes its null move (the window and the check test are inputs)
\* and calls itself with nullOk = false; nothing is pushed on searchStack_
RepNull ==
    /\ rep.phase = "rep"
    /\ repTop.pc = "open"
    /\ repTop.nullOk /\ repTop.depth >= 3
    /\ \E b \in {repMakeNullMove(rep.board_)} :
          rep' = [rep EXCEPT !.board_ = b,
                             !.frames = Append([@ EXCEPT ![Len(@)].pc = "moves"],
                                               RepFrame(b.pos, "null", rep.board_,
                                                        repTop.depth - 1 - NMP_REDUCTION, FALSE, "entry"))]
    /\ UNCHANGED <<pos, game, stack, search, stopSignal, tt, uci, perft, calc>>

\* the move loop of negamax or findBestMove: push the hash, make the move,
\* call negamax
RepMake(m) ==
    /\ rep.phase = "rep"
    /\ repTop.pc \in {"open", "moves"}
    /\ m \in repLegalMoves(rep.board_.pos)
    /\ \E b \in {repMakeMove(rep.board_, m)} :
          rep' = [rep EXCEPT !.board_ = b,
                             !.searchStack_ = Append(@, rep.board_.pos),
                             !.frames = Append([@ EXCEPT ![Len(@)].pc = "moves"],
                                               RepFrame(b.pos, "move", rep.board_,
                                                        repTop.depth - 1, TRUE, "entry"))]
    /\ UNCHANGED <<pos, game, stack, search, stopSignal, tt, uci, perft, calc>>

\* negamax returns: the caller unmakes its move and pops the hash, or
\* unmakes its null move
RepReturn ==
    /\ rep.phase = "rep"
    /\ repTop.via # "root"
    /\ repTop.pc # "entry"
    /\ rep' = [rep EXCEPT !.board_ = repTop.undo,
                          !.searchStack_ = IF repTop.via = "move" THEN Front(@) ELSE @,
                          !.frames = Front(@)]
    /\ UNCHANGED <<pos, game, stack, search, stopSignal, tt, uci, perft, calc>>

NextRep ==
    \/ RepEnter
    \/ RepNull
    \/ \E m \in {QuietMove(t) : t \in 0..2} \cup {PawnMove} : RepMake(m)
    \/ RepReturn

SpecRep == InitRep /\ [][NextRep]_vars

\* ========================================================== claims C11 - C20
TableIsClear == \A c \in 0..tt.mask_ : tt.clusters_[c] = EmptyCluster

\* what probe(hash) answers in table t: hit, score, depth, bound(), bestMove()
Probed(t, hash) ==
    LET pr == ttProbe(t, hash)
    IN  [hit |-> pr.hit, score |-> pr.entry.score, depth |-> pr.entry.depth,
         bound |-> pr.entry.bound, bestMove |-> entryBestMove(pr.entry.move)]

\* C11: store(hash, score, depth, bound, move) on a cleared table followed by
\* probe(hash) returns true with the stored score, depth, bound and move.
C11_RoundTrip ==
    [][\A r \in Requests :
          (TableIsClear /\ TTStore(r)) =>
              Probed(tt', r.hash) = [hit |-> TRUE, score |-> r.score, depth |-> r.depth,
                                     bound |-> r.bound, bestMove |-> r.move]]_vars

TargetCluster(t, hash) == t.clusters_[clusterIndex(hash, t.mask_)]

\* the entry store() packs from its arguments
PackedEntry(t, r) ==
    [key |-> verifyKey(r.hash), score |-> Int16(r.score), depth |-> Int16(r.depth),
     bound |-> r.bound, gen |-> t.generation_, move |-> setMove(r.move)]

EmptySlots(cluster) == {i \in 1..4 : entryIsEmpty(cluster[i])}
ChangedSlots(old, new) == {i \in 1..4 : old[i] # new[i]}

\* C12: a store whose verification key is not in the target cluster always
\* writes the new entry, into the first empty slot or, when all four slots are
\* occupied, over one of them, and the probe that follows returns that entry.
C12_StoreAlwaysWrites ==
    [][\A r \in Requests :
          (~keyPresent(TargetCluster(tt, r.hash), verifyKey(r.hash)) /\ TTStore(r)) =>
              /\ ttProbe(tt', r.hash) = [hit |-> TRUE, entry |-> PackedEntry(tt, r)]
              /\ \E slot \in 1..4 :
                    /\ ChangedSlots(TargetCluster(tt, r.hash), TargetCluster(tt', r.hash)) = {slot}
                    /\ TargetCluster(tt', r.hash)[slot] = PackedEntry(tt, r)
                    /\ \A e \in EmptySlots(TargetCluster(tt, r.hash)) : slot <= e]_vars

\* a fifth key was stored into a full cluster one generation later and is found
C12_Witness ==
    /\ tt.phase = "table"
    /\ tt.evictions = 1
    /\ tt.generation_ = 1
    /\ ttProbe(tt, Hash(4, 1)).hit
    /\ ttProbe(tt, Hash(4, 1)).entry.gen = 1
    /\ \A i \in 1..4 : TargetCluster(tt, Hash(4, 1))[i].key # 4 => TargetCluster(tt, Hash(4, 1))[i].gen = 0

\* (currentGeneration - entry.generation) mod 64
Age(t, e) == IF t.generation_ >= e.gen THEN t.generation_ - e.gen ELSE t.generation_ - e.gen + 64

ReplaceValue(t, e) == e.depth - 4 * Age(t, e)

\* the cluster with the packed entry of r written into slot i and nothing else changed
Written(t, r, i) == [TargetCluster(t, r.hash) EXCEPT ![i] = PackedEntry(t, r)]

\* the target cluster after store(r) by the three rules of the replacement policy
StoreRules(t, r, new) ==
    LET old == TargetCluster(t, r.hash)
        sameKey == {i \in 1..4 : ~entryIsEmpty(old[i]) /\ old[i].key = verifyKey(r.hash)}
    IN  IF sameKey # {}
          THEN \E i \in sameKey :
                  IF r.depth >= old[i].depth \/ r.bound = "EXACT"
                    THEN new = Written(t, r, i)
                    ELSE new = old
        ELSE IF EmptySlots(old) # {}
          THEN \E i \in EmptySlots(old) :
                  /\ \A j \in EmptySlots(old) : i <= j
                  /\ new = Written(t, r, i)
        ELSE \E i \in 1..4 :
                  /\ \A j \in 1..4 : ReplaceValue(t, old[i]) <= ReplaceValue(t, old[j])
                  /\ new = Written(t, r, i)

\* C20: store picks its slot by the first rule that applies: the entry with
\* the same verification key (overwritten if the incoming depth >= the stored
\* depth or the incoming bound is EXACT, else nothing changes), the first empty
\* slot, else the entry with the lowest depth - 4 * age; no other slot changes.
C20_ReplacementPolicy ==
    [][\A r \in Requests :
          TTStore(r) =>
              /\ StoreRules(tt, r, TargetCluster(tt', r.hash))
              /\ \A c \in 0..tt.mask_ :
                    c # clusterIndex(r.hash, tt.mask_) => tt'.clusters_[c] = tt.clusters_[c]]_vars

\* an eviction chose between entries of generation 63 and of generation 0
C20_Witness ==
    /\ tt.phase = "table"
    /\ tt.evictions = 1
    /\ tt.generation_ = 0
    /\ \E i, j \in 1..4 :
          /\ TargetCluster(tt, Hash(4, 1))[i].gen = 63
          /\ TargetCluster(tt, Hash(4, 1))[j].gen = 0
          /\ TargetCluster(tt, Hash(4, 1))[j].key # 4
    /\ ttProbe(tt, Hash(4, 1)).hit

\* C13: at most one search thread is running at any time, and no step of the
\* main thread taken while a search thread runs changes the transposition
\* table, the board, the game history or the set of threads.
C13_SingleSearchThread ==
    /\ [](Cardinality(liveThreads(uci)) <= 1)
    /\ [][(liveThreads(uci) # {} /\ uci'.main # uci.main) =>
            /\ tt' = tt
            /\ uci'.board_ = uci.board_
            /\ uci'.gameHistory_ = uci.gameHistory_
            /\ uci'.threads = uci.threads]_vars

\* The main thread waits in handleNewGame while the search, started on a
\* position with history, has written to the table.
C13_Witness ==
    /\ uci.phase = "uci"
    /\ liveThreads(uci) # {}
    /\ uci.main = "ucinewgame"
    /\ tt.stats_.stores > 0
    /\ uci.gameHistory_ # <<>>

C15_PartialReplacesPrevious ==
    (Done /\ search.stopped_ /\ search.discarded # NoMove) =>
        search.result = search.discarded

\* C15 (amended): in that case the best move of the root moves completed at
\* depth d is dropped: findBestMove returns the best move of iteration d - 1,
\* and the null move when d = 1.
C15_PartialIsDropped ==
    (Done /\ search.stopped_ /\ search.discarded # NoMove) =>
        search.result = IF search.stoppedAt = 1 THEN NoMove
                        ELSE search.completed[search.stoppedAt - 1]

\* stopped in the first iteration after a root move was completed
C15_Witness ==
    /\ Done
    /\ search.stopped_
    /\ search.stoppedAt = 1
    /\ search.discarded # NoMove
    /\ search.result = NoMove

\* C16: a step of findBestMove that ends with stopped_ set writes nothing to
\* the transposition table: the step that sets the flag and all steps after
\* it, by the root, negamax or quiescence, leave every entry as it was.
C16_NoStoreAfterStop ==
    [][search'.stopped_ => search'.tt_ = search.tt_]_vars

\* the stopped search unwinds through a negamax node that has a completed
\* child and a table that was written before the stop
C16_Witness ==
    /\ Searching
    /\ search.stopped_
    /\ search.tt_ # EmptyTable
    /\ \E i \in 1..Len(search.frames) :
          /\ search.frames[i].fn = "negamax"
          /\ search.frames[i].bestMove # NoMove

\* the moves of line, played one after the other from position from, are each
\* in the legal move list of the position they are played in
LegalLine(g, from, line) ==
    \A k \in 1..Len(line) : line[k] \in 1..NumMoves(g, from \o SubSeq(line, 1, k - 1))

\* what probe answers for the position the search is in
ProbeHere == probe(search.tt_, positionHash(search.game, search.board_))

\* C17: every move the search has made on its board with makeMoveUnchecked
\* (the moves of board_ other than null moves) and every move PV extraction
\* has made is in the legal move list of the position it was made in, also
\* when positions share their table keys.
C17_AppliedMovesLegal ==
    /\ \A k \in 1..Len(search.board_) :
          \/ search.board_[k] = 0
          \/ search.board_[k] \in 1..NumMoves(search.game, SubSeq(search.board_, 1, k - 1))
    /\ \A i \in 1..Len(search.infos) : LegalLine(search.game, <<>>, search.infos[i].pv)

\* negamax is about to probe the table in a position for which the table
\* holds the entry of another position whose move is not legal here, after a
\* PV of two moves was extracted
C17_Witness ==
    /\ At("negamax", "entry", FALSE)
    /\ search.game.collide
    /\ ProbeHere.hit
    /\ ProbeHere.entry.move > NumMoves(search.game, search.board_)
    /\ \E i \in 1..Len(search.infos) : Len(search.infos[i].pv) >= 2

\* the step makes a null move on the board
NullMoveMade ==
    /\ Searching
    /\ search'.board_ = Append(search.board_, 0)

\* a null move stands on the board directly after another one
NullTwiceInSuccession ==
    \E k \in 1..(Len(search.board_) - 1) : search.board_[k] = 0 /\ search.board_[k + 1] = 0

LastEntries(q, n) ==
    IF n <= 0 THEN <<>> ELSE IF n >= Len(q) THEN q ELSE SubSeq(q, Len(q) - n + 1, Len(q))

Occurrences(q, x) == Cardinality({i \in 1..Len(q) : q[i] = x})

\* the negamax calls on the search path that have passed their draw test
PastDrawTest(k) == rep.frames[k].via # "root" /\ rep.frames[k].pc # "entry"

\* C19, its first half: isRepetition is true exactly when the hash of the
\* current position is among the last min(searchStack size, halfmoveClock)
\* entries of the search stack or occurs at least twice among the last
\* (halfmoveClock - searchStack size) entries of the game history; negamax
\* returns SCORE_DRAW exactly then (the 50-move rule aside).
C19_IsRepetitionLookback ==
    rep.phase = "rep" =>
        /\ isRepetition(rep.board_, rep.searchStack_, rep.gameHistory_)
             <=> \/ Occurrences(LastEntries(rep.searchStack_,
                                            Min(Len(rep.searchStack_), rep.board_.halfmoveClock)),
                                rep.board_.pos) >= 1
                 \/ Occurrences(LastEntries(rep.gameHistory_,
                                            rep.board_.halfmoveClock - Len(rep.searchStack_)),
                                rep.board_.pos) >= 2
        /\ PastDrawTest(Len(rep.frames)) =>
             (repTop.pc = "draw" <=> isRepetition(rep.board_, rep.searchStack_, rep.gameHistory_))

\* C19, its second half: a negamax call in a position that stands earlier on
\* the current search path (no pawn move or capture lies in between: such a
\* move makes every later position differ) has returned SCORE_DRAW from its
\* draw test.
C19_RecurrenceIsDraw ==
    rep.phase = "rep" =>
        \A k \in 1..Len(rep.frames) :
            (PastDrawTest(k) /\ \E j \in 1..(k - 1) : rep.frames[j].pos = rep.frames[k].pos)
                => rep.frames[k].pc = "draw"

\* C19: isRepetition looks back as stated, and so a position that recurs on
\* the current search path is scored SCORE_DRAW by negamax before anything
\* else is done in it.
C19_Repetition == C19_IsRepetitionLookback /\ C19_RecurrenceIsDraw

\* ======================================================= functions of numbers
\* scoreToTT / scoreFromTT (TranspositionTable.h) and EngineMatch::allocateTime,
\* each called on arguments drawn from the ranges their callers can pass.
MAX_PLY == 128
INT_MAX == 2147483647

\* how far from the mate score and from zero the scores of the calls reach
MaxScoreMargin == 400
\* how far from zero the clock values of the calls reach, in milliseconds
MaxClockMs == 320
MaxIncrementMs == 12

\* search scores: around -SCORE_MATE, around SCORE_DRAW, around SCORE_MATE
Scores ==
    ((-SCORE_MATE)..(-SCORE_MATE + MaxScoreMargin))
        \cup ((-2)..2)
        \cup ((SCORE_MATE - MaxScoreMargin)..SCORE_MATE)

\* int remainingMs, int incMs: small values, and the largest int
ClockValues == {10 * k : k \in 0..(MaxClockMs \div 10)} \cup {149, 150, 151, INT_MAX}
Increments == (0..MaxIncrementMs) \cup {50, 1000, INT_MAX}

\* the values lmrTable_ can hold, and the depths of the nodes that reduce
MaxTableReduction == 8
MaxReduceDepth == 12

\* mutant of allocateTime: the floor of 50 ms is left out
allocateTime_NoFloor(remainingMs, incMs) ==
    IF incMs > INT_MAX - remainingMs \div 30
    THEN {Min((remainingMs \div 30 - INT_MAX - 1) + (incMs - INT_MAX - 1), remainingMs \div 3),
          remainingMs \div 3}
    ELSE {Min(remainingMs \div 30 + incMs, remainingMs \div 3)}

\* int EngineMatch::allocateTime(int remainingMs, int incMs) const: the values
\* it can return. remainingMs / 30 + incMs overflows int for a large incMs
\* (undefined behaviour): the sum then is the wrapped one, or is treated as
\* larger than remainingMs / 3 by a build that assumes no overflow.
allocateTime(remainingMs, incMs) ==
    IF incMs > INT_MAX - remainingMs \div 30
    THEN {Max(Min((remainingMs \div 30 - INT_MAX - 1) + (incMs - INT_MAX - 1), remainingMs \div 3), 50),
          Max(remainingMs \div 3, 50)}
    ELSE {Max(Min(remainingMs \div 30 + incMs, remainingMs \div 3), 50)}

InitCalc ==
    /\ pos = NoBoard
    /\ game = <<>>
    /\ stack = <<>>
    /\ search = NoSearch
    /\ stopSignal = FALSE
    /\ tt = Absent
    /\ uci = Absent
    /\ perft = Absent
    /\ rep = Absent
    /\ \/ \E score \in Scores, ply \in 0..MAX_PLY :
             calc = [phase |-> "score", pc |-> "call", score |-> score, ply |-> ply,
                     stored |-> 0, read |-> 0]
       \/ \E remainingMs \in ClockValues, incMs \in Increments :
             calc = [phase |-> "time", pc |-> "call", remainingMs |-> remainingMs,
                     incMs |-> incMs, allocated |-> 0]
       \/ \E depth \in 3..MaxReduceDepth, reduction \in 0..MaxTableReduction :
             calc = [phase |-> "lmr", pc |-> "call", depth |-> depth, table |-> reduction,
                     reduction |-> 0]

\* tt_.store(hash, scoreToTT(score, ply), ...)
ScoreToTT ==
    /\ calc.phase = "score"
    /\ calc.pc = "call"
    /\ calc' = [calc EXCEPT !.pc = "stored", !.stored = scoreToTT(calc.score, calc.ply)]
    /\ UNCHANGED <<pos, game, stack, search, stopSignal, tt, uci, perft, rep>>

\* int ttScore = scoreFromTT(ttEntry.score, ply), at the ply of the store
ScoreFromTT ==
    /\ calc.phase = "score"
    /\ calc.pc = "stored"
    /\ calc' = [calc EXCEPT !.pc = "read", !.read = scoreFromTT(calc.stored, calc.ply)]
    /\ UNCHANGED <<pos, game, stack, search, stopSignal, tt, uci, perft, rep>>

\* config.searchTime = std::chrono::milliseconds(allocateTime(remaining, incMs_))
AllocateTime ==
    /\ calc.phase = "time"
    /\ calc.pc = "call"
    /\ \E ms \in allocateTime(calc.remainingMs, calc.incMs) :
          calc' = [calc EXCEPT !.pc = "returned", !.allocated = ms]
    /\ UNCHANGED <<pos, game, stack, search, stopSignal, tt, uci, perft, rep>>

\* reduction = lmrTable_[di][mi], clamped, at a node of depth >= 3
LmrClamp ==
    /\ calc.phase = "lmr"
    /\ calc.pc = "call"
    /\ calc' = [calc EXCEPT !.pc = "clamped", !.reduction = clampReduction(calc.table, calc.depth)]
    /\ UNCHANGED <<pos, game, stack, search, stopSignal, tt, uci, perft, rep>>

NextCalc ==
    \/ ScoreToTT
    \/ ScoreFromTT
    \/ AllocateTime
    \/ LmrClamp

SpecCalc == InitCalc /\ [][NextCalc]_vars

\* ===================================================== the plies of a search
\* The numbers negamax works on along the path from the root to the node being
\* searched: the iteration's depth, the node's depth and ply.  What the board
\* decides (a draw, a TT cutoff, no legal move, a stop, whether the null move
\* and a reduction apply) is left open, so a node may return at any point and
\* every depth the calls can pass occurs.  When the node returns the root loop
\* is where the next path starts.

\* Bound: the largest N of "go depth N"
MaxGoDepth == 129
GoDepths == {1, MaxGoDepth}
GoCommands ==
    [kind : {"depth"}, depth : GoDepths]
        \cup [kind : {"movetime", "infinite", "clock"}, depth : {0}]

\* SearchConfig{}: int maxDepth{64}
DefaultMaxDepth == 64

\* Uci::handleGo: config.maxDepth for the command
goMaxDepth(cmd) ==
    IF cmd.depth > 0 THEN cmd.depth
    ELSE IF cmd.kind = "infinite" THEN 64
    ELSE DefaultMaxDepth

InitPly ==
    /\ pos = NoBoard
    /\ game = <<>>
    /\ stack = <<>>
    /\ search = NoSearch
    /\ stopSignal = FALSE
    /\ tt = Absent
    /\ uci = Absent
    /\ perft = Absent
    /\ rep = Absent
    /\ \E cmd \in GoCommands :
          calc = [phase |-> "ply", pc |-> "go", cmd |-> cmd, maxDepth |-> DefaultMaxDepth,
                  rootDepth |-> 0, depth |-> 0, ply |-> 0, nullOk |-> FALSE]

\* Uci::handleGo up to the start of the search thread
PlyHandleGo ==
    /\ calc.phase = "ply"
    /\ calc.pc = "go"
    /\ calc' = [calc EXCEPT !.pc = "root", !.maxDepth = goMaxDepth(calc.cmd)]
    /\ UNCHANGED <<pos, game, stack, search, stopSignal, tt, uci, perft, rep>>

\* for (depth = 1; depth <= config_.maxDepth; ++depth): negamax(depth - 1, ..., 1, givesCheck)
PlyRootIteration ==
    /\ calc.phase = "ply"
    /\ calc.pc = "root"
    /\ calc.rootDepth < calc.maxDepth
    /\ calc' = [calc EXCEPT !.pc = "entry", !.rootDepth = @ + 1, !.depth = calc.rootDepth,
                            !.ply = 1, !.nullOk = TRUE]
    /\ UNCHANGED <<pos, game, stack, search, stopSignal, tt, uci, perft, rep>>

\* the depth loop is left: maxDepth reached, no root move, mate score or stop
PlySearchReturn ==
    /\ calc.phase = "ply"
    /\ calc.pc = "root"
    /\ calc' = [calc EXCEPT !.pc = "done"]
    /\ UNCHANGED <<pos, game, stack, search, stopSignal, tt, uci, perft, rep>>

\* if (depth == 0) return quiescence(alpha, beta, ply);
PlyQuiescence ==
    /\ calc.phase = "ply"
    /\ calc.pc = "entry"
    /\ calc.depth = 0
    /\ calc' = [calc EXCEPT !.pc = "quiescence"]
    /\ UNCHANGED <<pos, game, stack, search, stopSignal, tt, uci, perft, rep>>

\* the null-move search: negamax(depth - 1 - NMP_REDUCTION, ..., ply + 1, false, false)
PlyNullMove ==
    /\ calc.phase = "ply"
    /\ calc.pc = "entry"
    /\ calc.nullOk
    /\ calc.depth >= 3
    /\ calc' = [calc EXCEPT !.depth = @ - 1 - NMP_REDUCTION, !.ply = @ + 1, !.nullOk = FALSE]
    /\ UNCHANGED <<pos, game, stack, search, stopSignal, tt, uci, perft, rep>>

\* assert(ply < MAX_PLY); const Move* killers = killers_[ply].data(); sort
PlyKillers ==
    /\ calc.phase = "ply"
    /\ calc.pc = "entry"
    /\ calc.depth >= 1
    /\ calc' = [calc EXCEPT !.pc = "moves"]
    /\ UNCHANGED <<pos, game, stack, search, stopSignal, tt, uci, perft, rep>>

\* the reductions the move loop can apply at this depth
PlyReductions(depth) ==
    {0} \cup (IF depth >= 3 THEN {clampReduction(r, depth) : r \in 0..MaxTableReduction} ELSE {})

\* the search of moves[i]: negamax(depth - 1 - reduction, ..., ply + 1, givesCheck)
PlyChild(reduction) ==
    /\ calc.phase = "ply"
    /\ calc.pc = "moves"
    /\ calc' = [calc EXCEPT !.pc = "entry", !.depth = @ - 1 - reduction, !.ply = @ + 1,
                            !.nullOk = TRUE]
    /\ UNCHANGED <<pos, game, stack, search, stopSignal, tt, uci, perft, rep>>

\* the node returns, and the calls above it, back to the root loop
PlyReturn ==
    /\ calc.phase = "ply"
    /\ calc.pc \in {"entry", "moves", "quiescence"}
    /\ calc' = [calc EXCEPT !.pc = "root", !.depth = 0, !.ply = 0, !.nullOk = FALSE]
    /\ UNCHANGED <<pos, game, stack, search, stopSignal, tt, uci, perft, rep>>

NextPly ==
    \/ PlyHandleGo
    \/ PlyRootIteration
    \/ PlySearchReturn
    \/ PlyQuiescence
    \/ PlyNullMove
    \/ PlyKillers
    \/ \E reduction \in PlyReductions(calc.depth) : PlyChild(reduction)
    \/ PlyReturn

SpecPly == InitPly /\ [][NextPly]_vars

\* ========================================================== claims C21 - C30

\* C21: scoreFromTT undoes scoreToTT at the same ply, for every ply in
\* 0..MAX_PLY and every score from -SCORE_MATE to SCORE_MATE, and neither
\* function changes a score strictly between -(SCORE_MATE - 200) and
\* SCORE_MATE - 200.
C21_ScoreRoundTrip ==
    calc.phase = "score" =>
        /\ calc.pc = "read" => calc.read = calc.score
        /\ (calc.pc # "call" /\ Abs(calc.score) < SCORE_MATE - 200) =>
              /\ calc.stored = calc.score
              /\ scoreFromTT(calc.score, calc.ply) = calc.score

\* a mate score three plies from mate, stored from the deepest ply and read back
C21_Witness ==
    /\ calc.phase = "score"
    /\ calc.pc = "read"
    /\ calc.ply = MAX_PLY
    /\ calc.score = -(SCORE_MATE - 3)
    /\ calc.stored = -(SCORE_MATE - 3) - MAX_PLY
    /\ calc.read = calc.score

\* what allocateTime computes when remainingMs / 30 + incMs fits an int
ClampedAllocation(remainingMs, incMs) ==
    Max(Min(remainingMs \div 30 + incMs, remainingMs \div 3), 50)

\* C30 (as the specification states it): for every remaining >= 0 and
\* increment >= 0 the result of allocateTime is at least 50 ms and at most
\* remaining / 3.
C30_AtMostThird ==
    (calc.phase = "time" /\ calc.pc = "returned") =>
        /\ calc.allocated >= 50
        /\ calc.allocated <= calc.remainingMs \div 3

\* C30 (amended): for every remaining >= 0 and increment >= 0 the result of
\* allocateTime is at least 50 ms and at most the larger of remaining / 3 and
\* 50 ms, and is remaining / 30 + increment clamped above by remaining / 3 and
\* then below by 50 ms whenever that sum fits an int.
C30_AllocateTimeClamp ==
    (calc.phase = "time" /\ calc.pc = "returned") =>
        /\ calc.allocated >= 50
        /\ calc.allocated <= Max(calc.remainingMs \div 3, 50)
        /\ calc.incMs <= INT_MAX - calc.remainingMs \div 30 =>
              calc.allocated = ClampedAllocation(calc.remainingMs, calc.incMs)

\* less than 150 ms are left: the floor of 50 ms exceeds a third of the clock
C30_Witness ==
    /\ calc.phase = "time"
    /\ calc.pc = "returned"
    /\ calc.remainingMs = 90
    /\ calc.incMs = 0
    /\ calc.allocated = 50

\* a null move is the last thing done to the board
AfterNullMove == stack # <<>> /\ stack[Len(stack)].null

\* the keys makeNullMove XORs into the hash of the position `before`
NullMoveKeys(before) ==
    {sideKey} \cup (IF before.enPassantSquare # SQUARE_NONE
                      THEN {enPassantKeys(getFile(before.enPassantSquare))}
                      ELSE {})

\* C22: after makeNullMove the side to move is the other one, the en-passant
\* square is cleared, the hash differs by the side key and the key of the
\* en-passant file that was set, and every other field of the position
\* (castling rights, board, bitboards, kingSquare, psqt, both clocks) is what
\* it was; unmakeNullMove with the saved square and hash gives back the
\* position from before the null move.
C22_NullMoveFrame ==
    /\ [](AfterNullMove =>
            LET before == stack[Len(stack)].before
            IN  /\ pos.sideToMove = Opp(before.sideToMove)
                /\ pos.enPassantSquare = SQUARE_NONE
                /\ Xor(pos.hash, before.hash) = NullMoveKeys(before)
                /\ [pos EXCEPT !.sideToMove = before.sideToMove,
                               !.enPassantSquare = before.enPassantSquare,
                               !.hash = before.hash] = before)
    /\ [][(AfterNullMove /\ stack' = Front(stack)) => pos' = stack[Len(stack)].before]_vars

\* a null move made with an en-passant square and castling rights on the board
C22_Witness ==
    /\ AfterNullMove
    /\ stack[Len(stack)].before.enPassantSquare # SQUARE_NONE
    /\ stack[Len(stack)].before.castlingRights # {}
    /\ stack[Len(stack)].before.fullmoveNumber > 1
    /\ pos.enPassantSquare = SQUARE_NONE

\* the king's and the rook's original squares of a castling right
CastlingKingSquare(right) ==
    makeSquare(FILE_E, IF right \in WHITE_CASTLING THEN RANK_1 ELSE RANK_8)

CastlingRookSquare(right) ==
    makeSquare(IF right \in {WHITE_KINGSIDE, BLACK_KINGSIDE} THEN FILE_H ELSE FILE_A,
               IF right \in WHITE_CASTLING THEN RANK_1 ELSE RANK_8)

CastlingColor(right) == IF right \in WHITE_CASTLING THEN White ELSE Black

\* the step makes a move on the board (Board::makeMove or makeMoveUnchecked)
MoveMade == game' # game \/ (Len(stack') > Len(stack) /\ ~stack'[Len(stack')].null)

\* C27: in every position reached from the start position, each castling
\* right that is set has the king of its colour on E1/E8 and a rook of its
\* colour on its corner; no move made adds a castling right; every castling
\* move in the legal move list starts on the king of the side to move and has
\* the rook of that side on the corner it castles with.
C27_CastlingRightsSound ==
    /\ [](/\ \A right \in pos.castlingRights :
               /\ pos.board[CastlingKingSquare(right)] = Piece(King, CastlingColor(right))
               /\ pos.kingSquare[CastlingColor(right)] = CastlingKingSquare(right)
               /\ pos.board[CastlingRookSquare(right)] = Piece(Rook, CastlingColor(right))
          /\ \A m \in LegalSet(pos) :
               isCastling(m) =>
                   /\ pos.board[m.from] = Piece(King, pos.sideToMove)
                   /\ pos.board[makeSquare(IF getFile(m.to) = FILE_G THEN FILE_H ELSE FILE_A,
                                           getRank(m.from))] = Piece(Rook, pos.sideToMove))
    /\ [][MoveMade => pos'.castlingRights \subseteq pos.castlingRights]_vars

\* White has taken the rook on h8: Black keeps the long right only, with king
\* and a8 rook at home
C27_Witness ==
    /\ pos.board[makeSquare(FILE_H, RANK_8)] = Piece(Bishop, White)
    /\ pos.castlingRights = {WHITE_KINGSIDE, WHITE_QUEENSIDE, BLACK_QUEENSIDE}

\* the move a MoveMade step makes
LastMoveMade == IF game' # game THEN game'[Len(game')] ELSE stack'[Len(stack')].move

\* a move of a pawn by two ranks
DoublePush(p, m) ==
    p.board[m.from].type = Pawn /\ Abs(getRank(m.to) - getRank(m.from)) = 2

\* C28: enPassantSquare is the no-square sentinel, or a rank-3 square with
\* Black to move, or a rank-6 square with White to move, in every position
\* reached by makeMove, unmakeMove, makeNullMove and unmakeNullMove; a move made
\* sets it to the square the pawn passed over when it is a pawn double push
\* and clears it otherwise.
C28_EnPassantSquare ==
    /\ [](\/ pos.enPassantSquare = SQUARE_NONE
          \/ getRank(pos.enPassantSquare) = RANK_3 /\ pos.sideToMove = Black
          \/ getRank(pos.enPassantSquare) = RANK_6 /\ pos.sideToMove = White)
    /\ [][MoveMade =>
            pos'.enPassantSquare =
                IF DoublePush(pos, LastMoveMade)
                THEN makeSquare(getFile(LastMoveMade.from),
                                (getRank(LastMoveMade.from) + getRank(LastMoveMade.to)) \div 2)
                ELSE SQUARE_NONE]_vars

\* Black has just pushed a pawn two squares: the square behind it, on rank 6,
\* is the en-passant square and White is to move
C28_Witness ==
    /\ pos.enPassantSquare # SQUARE_NONE
    /\ getRank(pos.enPassantSquare) = RANK_6
    /\ pos.sideToMove = White
    /\ pos.board[pos.enPassantSquare - 8] = Piece(Pawn, Black)

\* the position of the call that is k-th on the call stack: the moves on the
\* board up to its ply
NodePath(k) == SubSeq(search.board_, 1, search.frames[k].ply)

\* After a null move made by a side that is not in check, the side to move
\* is not in check either (on the chess board of Spec; the game trees of the
\* search have no check after a null move for this reason).
NullMoveLeavesNoCheck == AfterNullMove => ~isInCheck(pos, pos.sideToMove)

ClampKeepsDepth ==
    (calc.phase = "lmr" /\ calc.pc = "clamped") =>
        /\ 0 <= calc.reduction
        /\ calc.reduction <= calc.depth - 2
        /\ calc.reduction <= calc.table
        /\ calc.depth - 1 - calc.reduction >= 1

\* C24: every call of negamax starts with alpha < beta, depth >= 0 and
\* ply >= 0, every call of quiescence with alpha < beta and ply >= 0 - the
\* null-move search, the reduced, zero-window and re-searches included - and
\* every entry a store has written holds depth >= 0 and a bound other than NONE.
C24_Preconditions ==
    Searching =>
        /\ At("negamax", "entry", FALSE) =>
              /\ Frame(search).alpha < Frame(search).beta
              /\ Frame(search).depth >= 0
              /\ Frame(search).ply >= 0
        /\ At("quiescence", "entry", FALSE) =>
              /\ Frame(search).alpha < Frame(search).beta
              /\ Frame(search).ply >= 0
        /\ \A i \in 1..4 :
              search.tt_[i] # EmptyEntry =>
                  search.tt_[i].depth >= 0 /\ search.tt_[i].bound \in {"EXACT", "LOWER", "UPPER"}

\* a reduced zero-window search at its entry, with an entry of this search in
\* the table
C24_Witness ==
    /\ At("negamax", "entry", FALSE)
    /\ Len(search.frames) >= 2
    /\ search.frames[Len(search.frames) - 1].reduction > 0
    /\ search.frames[Len(search.frames) - 1].stage = "zw"
    /\ Frame(search).beta = Frame(search).alpha + 1
    /\ \E i \in 1..4 : search.tt_[i].gen > 0

\* C26: in every table state store, newSearch and clear can produce, each
\* cluster's non-empty entries fill a prefix of its 4 slots, no two non-empty
\* entries of a cluster carry the same verification key, and an entry is
\* non-empty exactly when its bound is not NONE.
C26_ClusterInvariants ==
    tt.phase = "table" =>
        \A c \in 0..tt.mask_ :
            /\ \A i \in 1..4, j \in 1..4 :
                  (i < j /\ entryIsEmpty(tt.clusters_[c][i])) => entryIsEmpty(tt.clusters_[c][j])
            /\ \A i \in 1..4, j \in 1..4 :
                  (/\ i # j
                   /\ ~entryIsEmpty(tt.clusters_[c][i])
                   /\ ~entryIsEmpty(tt.clusters_[c][j])) =>
                      tt.clusters_[c][i].key # tt.clusters_[c][j].key
            /\ \A i \in 1..4 :
                  ~entryIsEmpty(tt.clusters_[c][i]) <=> tt.clusters_[c][i].bound # "NONE"

\* a full cluster that has had an entry replaced and holds entries of two
\* generations
C26_Witness ==
    /\ tt.phase = "table"
    /\ tt.evictions > 0
    /\ clusterFull(tt.clusters_[1])
    /\ \E i \in 1..4 : tt.clusters_[1][i].gen = 0
    /\ \E i \in 1..4 : tt.clusters_[1][i].gen = 1

\* a step in which an iteration of findBestMove's depth loop begins
IterationStarts ==
    /\ search'.phase = "searching"
    /\ \/ search.phase # "searching"
       \/ search'.frames[1].depth # search.frames[1].depth

\* C29: when an iteration of the depth loop begins and when findBestMove
\* returns - after the last depth, a mate score, a time-out or the stop
\* signal - board_ is the root position and searchStack_ is empty: every move
\* and null move made and every hash pushed, those of extractPV included, has
\* been undone. (An iteration's first step makes moves[0] on that board.)
C29_BoardRestored ==
    [][/\ IterationStarts =>
            /\ search'.board_ = <<search'.frames[1].moves[1]>>
            /\ search'.searchStack_ = <<positionHash(search'.game, <<>>)>>
       /\ search'.phase = "done" =>
            /\ search'.board_ = <<>>
            /\ search'.searchStack_ = <<>>]_vars

\* findBestMove has returned after a stop in its third iteration or later,
\* having reported a PV of two moves or more
C29_Witness ==
    /\ Done
    /\ search.stoppedAt >= 3
    /\ \E k \in 1..Len(search.infos) : Len(search.infos[k].pv) >= 2
    /\ search.board_ = <<>>
    /\ search.searchStack_ = <<>>

\* along every path the ply of a node that indexes killers_ is below the
\* iteration's depth, so it is in range in every search with maxDepth <= MAX_PLY
PlyBelowRootDepth ==
    (calc.phase = "ply" /\ calc.pc = "moves") =>
        /\ calc.ply + calc.depth <= calc.rootDepth
        /\ calc.ply < calc.rootDepth
        /\ calc.maxDepth <= MAX_PLY => calc.ply < MAX_PLY

\* C25: at every negamax node that indexes the killer table ply < MAX_PLY,
\* for every search the UCI front-end can start (go depth N for any N > 0, go
\* infinite, go movetime, clock-based go) and for the default SearchConfig.
C25_PlyInRange ==
    (calc.phase = "ply" /\ calc.pc = "moves") => calc.ply < MAX_PLY

====
